---- MODULE Spec2Model ----
(***************************************************************************)
(* A model of the qualpal core: the pairwise colour-difference matrix      *)
(* (color_difference.h), the farthest-points selector                      *)
(* (farthest_points.cpp), the Qualpal builder's setters and selectColors   *)
(* (qualpal.cpp), the hex constructor and formatter of RGB (colors.cpp)    *)
(* and analyzePalette (analyze.cpp).                                       *)
(*                                                                         *)
(* Numbers.  The library computes with 64-bit floats; the model computes   *)
(* with integers.  An sRGB channel is one of the levels 0..2 (0, 0.5, 1),  *)
(* the colour conversions keep their matrix / formula shape with integer   *)
(* coefficients and without the transcendental parts, and each metric is   *)
(* a strictly increasing image of the distance it computes (the selector   *)
(* only ever compares distances).  A memory budget is held in bytes        *)
(* (max_memory GB * 2^30), a severity in tenths.  Indices are 0-based as   *)
(* in the code: a C++ vector is a function on 0..size-1.                   *)
(*                                                                         *)
(* Specifications.                                                         *)
(*   Spec        one call of farthestPoints                                *)
(*   SpecLive    the same call under weak fairness of its next step        *)
(*   SpecTwice   farthestPoints called twice with the same arguments       *)
(*   SpecFill    colorDifferenceMatrix with its parallel loop interleaved  *)
(*   SpecSelect  the builder: setters, then generate or extend             *)
(*   SpecAgain   SpecSelect, then generate again on the returned palette   *)
(*   SpecColorspace  calls of setInputColorspace                           *)
(*   SpecHex     a string handed to setInputHex or to RGB, then hex()      *)
(*   SpecAnalyze one call of analyzePalette                                *)
(*   SpecZero    SpecSelect, then the call repeated with zero severities   *)
(*               and the returned palette analysed                         *)
(*   SpecCalls   a call, any second call, and the first call again         *)
(*   SpecConvert a dark grey from Lab to XYZ and back, in exact fractions  *)
(*   SpecSetters one setter call on each configured builder                *)
(*   SpecGrid    setInputColorspace, setColorspaceSize, then the HSL grid  *)
(***************************************************************************)
EXTENDS Integers, Sequences, FiniteSets, TLC

(***************************************************************************)
(* Bounds of the model.                                                    *)
(***************************************************************************)
\* largest number of colours of a matrix filled in parallel, and of a
\* palette handed to analyzePalette
MaxColors == 3
\* largest number of OpenMP threads
MaxThreads == 2
\* largest number of colours handed to setInputRGB
MaxPool == 2
\* largest number of candidate colours handed to the selector
MaxCandidates == 4
\* largest number of fixed anchors
MaxFixed == 1
\* largest requested palette size n
MaxN == 3

(***************************************************************************)
(* Program constants.                                                      *)
(***************************************************************************)
\* sizeof(double)
SizeofDouble == 8
\* std::numeric_limits<double>::max(): larger than every distance
DBL_MAX == 1000000000

(***************************************************************************)
(* Vectors: a std::vector is a function on 0..size-1.                      *)
(***************************************************************************)
Vec(s) == [k \in 0..(Len(s) - 1) |-> s[k + 1]]

size(v) == Cardinality(DOMAIN v)

EmptyVec == Vec(<<>>)

\* v1 followed by v2 (vector::insert at end())
Concat(v1, v2) ==
  [k \in 0..(size(v1) + size(v2) - 1) |->
     IF k < size(v1) THEN v1[k] ELSE v2[k - size(v1)]]

\* v followed by the single element x (emplace_back / push_back)
PushBack(v, x) == [k \in 0..size(v) |-> IF k < size(v) THEN v[k] ELSE x]

Min2(a, b) == IF a < b THEN a ELSE b

\* std::min folded over a set of values, starting from DBL_MAX
MinOver(S) == IF S = {} THEN DBL_MAX
              ELSE Min2(DBL_MAX, CHOOSE m \in S : \A x \in S : m <= x)

\* all sequences over S of length at most k
RECURSIVE SeqsUpTo(_, _)
SeqsUpTo(S, k) ==
  IF k = 0 THEN {<<>>} ELSE SeqsUpTo(S, k - 1) \cup [1..k -> S]

\* injective sequences over S of length at most k
InjSeqs(S, k) ==
  {s \in SeqsUpTo(S, k) : \A a, b \in 1..Len(s) : a # b => s[a] # s[b]}

(***************************************************************************)
(* Colours.                                                                *)
(***************************************************************************)
\* an sRGB colour: three channel levels
RGB(r, g, b) == <<r, g, b>>

Black == RGB(0, 0, 0)
White == RGB(2, 2, 2)
Red   == RGB(2, 0, 0)
Cyan  == RGB(0, 2, 2)
Yellow == RGB(2, 2, 0)

\* XYZ::XYZ(const RGB&): the sRGB -> XYZ matrix (coefficients * 10, rounded)
XYZ(rgb) == << 4 * rgb[1] + 4 * rgb[2] + 2 * rgb[3],
               2 * rgb[1] + 7 * rgb[2] + 1 * rgb[3],
               0 * rgb[1] + 1 * rgb[2] + 10 * rgb[3] >>

\* Lab::Lab(const XYZ&): l from y, a from x - y, b from y - z
Lab(xyz) == << xyz[2], 5 * (xyz[1] - xyz[2]), 2 * (xyz[2] - xyz[3]) >>

\* DIN99d::DIN99d(const XYZ&): x' = 1.12 x - 0.12 z (* 8: 9x - z), Lab of
\* (x', y, z), then the rotated, rescaled chroma axes e and f
DIN99d(xyz) ==
  LET lab == Lab(<< 9 * xyz[1] - xyz[3], 8 * xyz[2], 8 * xyz[3] >>)
      e   == lab[2] + lab[3]
      f   == lab[3] - lab[2]
  IN  << lab[1], e, f >>

Sq(x) == x * x

\* std::hypot of the three component differences (its square)
Hypot2(p, q) == Sq(p[1] - q[1]) + Sq(p[2] - q[2]) + Sq(p[3] - q[3])

MetricTypes == {"DIN99d", "CIE76", "CIEDE2000"}

\* metrics::DIN99d::operator(): distance in DIN99d space (power transform is
\* increasing)
MetricDIN99d(c1, c2) == Hypot2(c1, c2)

\* metrics::CIE76::operator(): distance in Lab space
MetricCIE76(c1, c2) == Hypot2(c1, c2)

\* metrics::CIEDE2000::operator(): weighted lightness, chroma and hue terms
MetricCIEDE2000(c1, c2) ==
  4 * Sq(c2[1] - c1[1]) + Sq(c2[2] - c1[2]) + Sq(c2[3] - c1[3])

(***************************************************************************)
(* Exceptions.                                                             *)
(***************************************************************************)
NoError == [type |-> "none", what |-> ""]

Throw(type, what) == [type |-> type, what |-> what]

(***************************************************************************)
(* The colour-difference matrix (color_difference.h, color_difference.cpp).*)
(***************************************************************************)
\* detail::estimateMatrixMemory; the product is formed in std::size_t, and
\* every size of this model is far below the width at which it would wrap
estimateMatrixMemory(n_colors) == n_colors * n_colors * SizeofDouble

\* checkMatrixSize with a strict comparison
checkMatrixSize_strict(n_colors, max_bytes) ==
  estimateMatrixMemory(n_colors) < max_bytes

\* detail::checkMatrixSize; max_bytes is max_gb * 1024 * 1024 * 1024
checkMatrixSize(n_colors, max_bytes) ==
  estimateMatrixMemory(n_colors) <= max_bytes

\* Matrix<double>(rows, cols): every element value-initialised
Matrix(rows, cols) == [p \in (0..(rows - 1)) \X (0..(cols - 1)) |-> 0]

\* RowCells without the mirrored cell (j, i)
RowCells_upper_only(n_cols, i) ==
  {<<i, i>>} \cup {<<i, j>> : j \in (i + 1)..(n_cols - 1)}

\* RowCells with the inner loop over every j other than i
RowCells_every_j(n_cols, i) ==
  {<<i, i>>} \cup UNION {{<<i, j>>, <<j, i>>} : j \in (0..(n_cols - 1)) \ {i}}

\* the cells outer iteration i of the fill loop writes: (i, i), and (i, j)
\* and (j, i) for every j > i
RowCells(n_cols, i) ==
  {<<i, i>>} \cup UNION {{<<i, j>>, <<j, i>>} : j \in (i + 1)..(n_cols - 1)}

\* Metric{}(c1, c2) for the metric type the template is instantiated with
ApplyMetric(mt, c1, c2) ==
  IF mt = "DIN99d" THEN MetricDIN99d(c1, c2)
  ELSE IF mt = "CIEDE2000" THEN MetricCIEDE2000(c1, c2)
  ELSE MetricCIE76(c1, c2)

\* the values outer iteration i writes to its cells
RowWrites(colors, mt, i) ==
  [p \in RowCells(size(colors), i) |->
     IF p[1] = p[2] THEN 0
     ELSE ApplyMetric(mt, colors[i], colors[IF p[1] = i THEN p[2] ELSE p[1]])]

\* the matrix after outer iterations 0..i-1 of the fill loop, in order
RECURSIVE FillRows(_, _, _, _)
FillRows(mat, colors, mt, i) ==
  IF i = 0 THEN mat
  ELSE LET before == FillRows(mat, colors, mt, i - 1)
           w      == RowWrites(colors, mt, i - 1)
       IN  [p \in DOMAIN before |-> IF p \in DOMAIN w THEN w[p] ELSE before[p]]

\* colorDifferenceMatrix<ColorType, Metric>: the guards, then the fill
colorDifferenceMatrixT(colors, mt, max_bytes) ==
  IF size(colors) < 1
  THEN [error |-> Throw("std::invalid_argument",
                        "At least one color is required"), mat |-> <<>>]
  ELSE IF ~checkMatrixSize(size(colors), max_bytes)
  THEN [error |-> Throw("std::runtime_error",
                        "Color difference matrix would exceed the limit"),
        mat |-> <<>>]
  ELSE [error |-> NoError,
        mat |-> FillRows(Matrix(size(colors), size(colors)), colors, mt,
                         size(colors))]

\* colorDifferenceMatrix's conversion of an XYZ colour to the metric's
\* space
InMetricSpace(mt, xyz) == IF mt = "DIN99d" THEN DIN99d(xyz) ELSE Lab(xyz)

\* the metric the dispatch selects, applied to two XYZ colours
MetricValue(mt, c1, c2) ==
  ApplyMetric(mt, InMetricSpace(mt, c1), InMetricSpace(mt, c2))

\* colorDifferenceMatrix(vector<XYZ>, MetricType, max_memory): converts to
\* the metric's colour space, then the template
colorDifferenceMatrix(colors, mt, max_bytes) ==
  colorDifferenceMatrixT([k \in DOMAIN colors |-> InMetricSpace(mt, colors[k])],
                         mt, max_bytes)

(***************************************************************************)
(* State.                                                                  *)
(***************************************************************************)
VARIABLES
  pc,            \* where the running call stands
  caller,        \* "main", or "selectColors" when the builder made the call
  \* farthestPoints: parameters
  n, colors_in, metric_type, bg, fixed_points, max_memory,
  \* farthestPoints: locals
  colors, dist_mat, r, r_c, i, set_changed, result, error,
  \* a second call with the same arguments
  run, first_result, sort_memo,
  \* the Qualpal builder (this), selectColors' argument, local and result
  this, fixed_palette, rgb_colors, rgb_colors_mod, palette,
  \* the parallel region of colorDifferenceMatrix: Threads::num_threads, the
  \* outer iterations not yet handed out, what each thread is doing, and for
  \* each cell the outer iterations that wrote it
  num_threads, todo, thr, writer,
  \* RGB::RGB(const std::string&) and RGB::hex: the argument, the constructed
  \* object and the returned string
  hex, rgb_value, hex_out,
  \* analyzePalette: its argument cvd, its local cvd_types and the number of
  \* keys its loop has done
  cvd_arg, cvd_types, cvd_done,
  \* a colour converted to another space and back: the Lab object, the XYZ
  \* object made from it and the Lab object made from that
  lab_value, xyz_value, lab_again,
  \* the vector colorGrid<colors::HSL> returns
  grid

fp_params == <<n, colors_in, metric_type, bg, fixed_points, max_memory>>
fp_locals == <<colors, dist_mat, r, r_c, i, set_changed, result, error>>
rerun_vars == <<run, first_result, sort_memo>>
sc_vars == <<this, fixed_palette, rgb_colors, rgb_colors_mod, palette>>
omp_vars == <<num_threads, todo, thr, writer>>
hex_vars == <<hex, rgb_value, hex_out>>
ap_vars == <<cvd_arg, cvd_types, cvd_done>>
conv_vars == <<lab_value, xyz_value, lab_again>>
pure_vars == <<conv_vars, grid>>
lib_vars == <<hex_vars, ap_vars, pure_vars>>
vars == <<pc, caller, fp_params, fp_locals, rerun_vars, sc_vars, omp_vars, lib_vars>>

\* std::optional without a value
nullopt == <<>>

has_value(opt) == opt # nullopt

(***************************************************************************)
(* farthestPoints (farthest_points.cpp).                                   *)
(***************************************************************************)
n_fixed == size(fixed_points)
n_candidates == size(colors_in)
n_colors == n_fixed + n_candidates

\* lines 16-22: fixed points, then the candidates, then the background
AssembleColors(fixed, cands, background) ==
  IF has_value(background)
  THEN PushBack(Concat(fixed, cands), XYZ(background))
  ELSE Concat(fixed, cands)

\* InitialSelection drawn afresh on each call: here the first n indices
\* the first time and the same indices reversed the second
InitialSelection_per_run(nn) ==
  [k \in 0..(nn - 1) |-> IF run = 1 THEN k ELSE nn - 1 - k]

\* InitialSelection left over from an earlier call: from the second call
\* on, the new slots start in the reverse order
InitialSelection_after_first(nn) ==
  [k \in 0..(nn - 1) |->
     IF run = 1 \/ k < n_fixed THEN k ELSE n_fixed + (nn - 1 - k)]

\* lines 39-40: the first n indices
InitialSelection(nn) == [k \in 0..(nn - 1) |-> k]

\* InitialComplement counting up from the first candidate, whatever n
InitialComplement_all_candidates(nn, ncand) ==
  [k \in 0..(ncand - 1) |-> n_fixed + k]

\* lines 43-44: n_candidates entries counting up from n
InitialComplement(nn, ncand) == [k \in 0..(ncand - 1) |-> nn + k]

\* MinDistTo without the background term
MinDistTo_no_bg(sel, ii, p) ==
  MinOver({dist_mat[<<sel[j], p>>] : j \in (DOMAIN sel) \ {ii}})

\* lines 54-65 and 72-83: the smallest distance from point p to the selected
\* points other than slot ii, and to the background
MinDistTo(sel, ii, p) ==
  Min2(MinOver({dist_mat[<<sel[j], p>>] : j \in (DOMAIN sel) \ {ii}}),
       IF has_value(bg) THEN dist_mat[<<p, n_colors>>] ELSE DBL_MAX)

\* IsBetter with a non-strict comparison
IsBetter_or_equal(min_dist_k, min_dist_old) == min_dist_k >= min_dist_old

\* lines 85-89: whether complement point k replaces the best found so far
IsBetter(min_dist_k, min_dist_old) == min_dist_k > min_dist_old

\* lines 71-90: the scan of the complement from position k on; st holds
\* min_dist_old, ind_new and found_better
RECURSIVE ScanComplement(_, _, _, _, _)
ScanComplement(sel, comp, ii, k, st) ==
  IF k >= n_colors - n THEN st
  ELSE LET min_dist_k == MinDistTo(sel, ii, comp[k])
       IN  ScanComplement(sel, comp, ii, k + 1,
             IF IsBetter(min_dist_k, st.min_dist_old)
             THEN [min_dist_old |-> min_dist_k, ind_new |-> k,
                   found_better |-> TRUE]
             ELSE st)

\* ScanSlot with the scan of the complement begun at its second entry
ScanSlot_from_second(sel, comp, ii) ==
  ScanComplement(sel, comp, ii, 1,
    [min_dist_old |-> MinDistTo(sel, ii, sel[ii]), ind_new |-> ii,
     found_better |-> FALSE])

\* lines 52-90 for slot ii
ScanSlot(sel, comp, ii) ==
  ScanComplement(sel, comp, ii, 0,
    [min_dist_old |-> MinDistTo(sel, ii, sel[ii]), ind_new |-> ii,
     found_better |-> FALSE])

\* lines 111-125: the sort key of index a
SortKey(sel, a) ==
  MinOver({dist_mat[<<sel[k], a>>] :
             k \in {x \in DOMAIN sel : x >= n_fixed /\ sel[x] # a}})

\* lines 109-126: what std::sort may leave: the fixed prefix in place and a
\* rearrangement of the rest in which no later element compares before an
\* earlier one (the order of equivalent elements is unspecified)
SortOutcomes(sel) ==
  {s \in [DOMAIN sel -> {sel[k] : k \in DOMAIN sel}] :
     /\ \A k \in DOMAIN sel : k < n_fixed => s[k] = sel[k]
     /\ {s[k] : k \in DOMAIN s} = {sel[k] : k \in DOMAIN sel}
     /\ \A p, q \in DOMAIN s :
          (n_fixed <= p /\ p < q) => ~(SortKey(sel, s[q]) > SortKey(sel, s[p]))}

\* lines 129-134: the new colours' indices, counted from the first candidate
ResultOf(sel) == [k \in 0..(n - n_fixed - 1) |-> sel[n_fixed + k] - n_fixed]

\* lines 16-25: assemble the colours and build the matrix
BuildMatrix ==
  /\ pc = "fp_start"
  /\ colors' = AssembleColors(fixed_points, colors_in, bg)
  /\ LET m == colorDifferenceMatrix(colors', metric_type, max_memory)
     IN  /\ error' = m.error
         /\ dist_mat' = m.mat
         /\ pc' = IF m.error = NoError THEN "fp_check" ELSE "fp_thrown"
  /\ UNCHANGED <<caller, fp_params, r, r_c, i, set_changed, result,
                 rerun_vars, sc_vars, omp_vars, lib_vars>>

\* lines 33-46: the pool check, the seed and its complement
Seed ==
  /\ pc = "fp_check"
  /\ IF n - n_fixed > n_candidates
     THEN /\ error' = Throw("std::invalid_argument",
                "Requested number of new colors exceeds candidate pool.")
          /\ pc' = "fp_thrown"
          /\ UNCHANGED <<r, r_c, set_changed>>
     ELSE /\ r' = InitialSelection(n)
          /\ r_c' = InitialComplement(n, n_candidates)
          /\ set_changed' = TRUE
          /\ pc' = "fp_while"
          /\ UNCHANGED error
  /\ UNCHANGED <<caller, fp_params, colors, dist_mat, i, result, rerun_vars,
                 sc_vars, omp_vars, lib_vars>>

\* lines 48-51: the test of the while loop, and the for loop's first test
While ==
  /\ pc = "fp_while"
  /\ IF set_changed
     THEN /\ set_changed' = FALSE
          /\ i' = n_fixed
          /\ pc' = IF n_fixed < n THEN "fp_for" ELSE "fp_while"
     ELSE /\ pc' = "fp_sort"
          /\ UNCHANGED <<set_changed, i>>
  /\ UNCHANGED <<caller, fp_params, colors, dist_mat, r, r_c, result, error,
                 rerun_vars, sc_vars, omp_vars, lib_vars>>

\* lines 51-98: one iteration of the for loop, slot i, and the loop's next
\* test
Slot ==
  /\ pc = "fp_for"
  /\ LET st == ScanSlot(r, r_c, i)
     IN  IF st.found_better
         THEN /\ r' = [r EXCEPT ![i] = r_c[st.ind_new]]
              /\ r_c' = [r_c EXCEPT ![st.ind_new] = r[i]]
              /\ set_changed' = TRUE
         ELSE UNCHANGED <<r, r_c, set_changed>>
  /\ i' = i + 1
  /\ pc' = IF i + 1 < n THEN "fp_for" ELSE "fp_while"
  /\ UNCHANGED <<caller, fp_params, colors, dist_mat, result, error,
                 rerun_vars, sc_vars, omp_vars, lib_vars>>

\* what the call of std::sort is given: the range and what its comparator
\* captures
SortInput == <<r, n_fixed, dist_mat>>

\* lines 109-126: std::sort of the non-fixed part.  std::sort is a function
\* of its input: what it returned for an input it returns for it again.
Sort ==
  /\ pc = "fp_sort"
  /\ IF SortInput \in DOMAIN sort_memo
     THEN /\ r' = sort_memo[SortInput]
          /\ UNCHANGED sort_memo
     ELSE /\ r' \in SortOutcomes(r)
          /\ sort_memo' = (SortInput :> r') @@ sort_memo
  /\ pc' = "fp_return"
  /\ UNCHANGED <<caller, fp_params, colors, dist_mat, r_c, i, set_changed,
                 result, error, run, first_result, sc_vars, omp_vars, lib_vars>>

\* lines 128-136
Return ==
  /\ pc = "fp_return"
  /\ result' = ResultOf(r)
  /\ pc' = "fp_done"
  /\ UNCHANGED <<caller, fp_params, colors, dist_mat, r, r_c, i, set_changed,
                 error, rerun_vars, sc_vars, omp_vars, lib_vars>>

farthestPoints == BuildMatrix \/ Seed \/ While \/ Slot \/ Sort \/ Return

(***************************************************************************)
(* Spec: one call of farthestPoints on every input within the bounds.      *)
(***************************************************************************)
CandidateColors == {Black, White, Red, Cyan, Yellow}
AnchorColors == {Red}
Budgets == {estimateMatrixMemory(2),
            estimateMatrixMemory(MaxCandidates + MaxFixed + 1)}

XYZs(s) == [k \in DOMAIN Vec(s) |-> XYZ(Vec(s)[k])]

\* the builder before any setter is called
NewQualpal == [mode |-> "NONE", rgb_colors_in |-> EmptyVec, cvd |-> <<>>,
               bg |-> nullopt, metric |-> "DIN99d",
               max_memory |-> estimateMatrixMemory(MaxCandidates + MaxFixed + 1),
               h_lim |-> nullopt, s_or_c_lim |-> nullopt, l_lim |-> nullopt,
               colorspace_input |-> "HSL", hex_colors |-> EmptyVec,
               palette |-> <<>>, n_points |-> 1000]

FpLocalsInit ==
  /\ colors = EmptyVec
  /\ dist_mat = <<>>
  /\ r = EmptyVec
  /\ r_c = EmptyVec
  /\ i = 0
  /\ set_changed = FALSE
  /\ result = EmptyVec
  /\ error = NoError

\* no second call yet
RerunInit ==
  /\ run = 1
  /\ first_result = EmptyVec
  /\ sort_memo = <<>>

\* a builder nobody has used
ScInit ==
  /\ this = NewQualpal
  /\ fixed_palette = EmptyVec
  /\ rgb_colors = EmptyVec
  /\ rgb_colors_mod = EmptyVec
  /\ palette = EmptyVec

\* no parallel region entered
ApInit ==
  /\ cvd_arg = <<>>
  /\ cvd_types = <<>>
  /\ cvd_done = 0

ConvInit ==
  /\ lab_value = nullopt
  /\ xyz_value = nullopt
  /\ lab_again = nullopt

PureInit == ConvInit /\ grid = EmptyVec

LibInit ==
  /\ hex = <<>>
  /\ rgb_value = nullopt
  /\ hex_out = <<>>
  /\ ApInit
  /\ PureInit

OmpInit ==
  /\ num_threads = 1
  /\ todo = {}
  /\ thr = <<>>
  /\ writer = <<>>

\* farthestPoints is internal to the library: its caller hands it n of at
\* least the number of fixed points
Init ==
  /\ pc = "fp_start"
  /\ caller = "main"
  /\ n \in 0..MaxN
  /\ colors_in \in {XYZs(s) : s \in InjSeqs(CandidateColors, MaxCandidates)}
  /\ fixed_points \in {XYZs(s) : s \in SeqsUpTo(AnchorColors, MaxFixed)}
  /\ n >= size(fixed_points)
  /\ bg \in {nullopt, White}
  /\ metric_type \in MetricTypes
  /\ max_memory \in Budgets
  /\ FpLocalsInit
  /\ RerunInit
  /\ LibInit
  /\ ScInit
  /\ OmpInit

Next == farthestPoints

Spec == Init /\ [][Next]_vars

(***************************************************************************)
(* Properties of one call of farthestPoints.                               *)
(***************************************************************************)
Returned == pc = "fp_done"

\* the indices of the fixed points in the assembled vector
FixedIndices == 0..(n_fixed - 1)

\* the indices of the candidates in the assembled vector
CandidateIndices == n_fixed..(n_colors - 1)

\* C1.  The selector returns exactly n indices; the first n_fixed of them
\* are 0, ..., n_fixed-1 in that order and every other one lies in
\* n_fixed .. n_fixed+C-1, for n >= n_fixed.
C1_ReturnsAnchorsThenCandidates ==
  (Returned /\ n >= n_fixed) =>
     /\ size(result) = n
     /\ \A k \in DOMAIN result :
          /\ k < n_fixed => result[k] = k
          /\ k >= n_fixed => result[k] \in CandidateIndices

\* What the code returns instead: the n - n_fixed selected candidates only,
\* each counted from the first candidate.
C1_ReturnsNewIndicesOnly ==
  (Returned /\ n >= n_fixed) =>
     /\ size(result) = n - n_fixed
     /\ \A k \in DOMAIN result : result[k] \in 0..(n_candidates - 1)

\* the set of assembled-vector indices a returned result stands for: the
\* fixed points and the selected candidates
ReturnedSet == FixedIndices \cup {result[k] + n_fixed : k \in DOMAIN result}

\* the points an objective counts: the set and, when there is one, the
\* background (index n_colors)
WithBackground(S) == IF has_value(bg) THEN S \cup {n_colors} ELSE S

\* the smallest pairwise distance among the points of S and the background
Objective(S) ==
  MinOver({dist_mat[q] :
             q \in {q \in WithBackground(S) \X WithBackground(S) : q[1] < q[2]}})

\* the subsets of size n that contain every fixed point
Feasible ==
  {S \in SUBSET (0..(n_colors - 1)) : Cardinality(S) = n /\ FixedIndices \subseteq S}

\* the feasible sets one exchange away from S: one candidate of S replaced
\* by one candidate outside S
Exchanges(S) ==
  {(S \ {a}) \cup {b} : a \in S \cap CandidateIndices, b \in CandidateIndices \ S}

\* C4 as stated.  The returned set attains the largest minimum pairwise
\* distance among all subsets of size n that contain every anchor.
C4_GloballyOptimal ==
  (Returned /\ n >= n_fixed) =>
     \A S \in Feasible : Objective(S) <= Objective(ReturnedSet)

\* C4.  No feasible set that differs from the returned set by exchanging one
\* selected candidate for one unselected candidate has a larger minimum
\* pairwise distance (the background counted as a point when there is one).
C4_ExchangeOptimal ==
  (Returned /\ n >= n_fixed) =>
     \A S \in Exchanges(ReturnedSet) : Objective(S) <= Objective(ReturnedSet)

\* a returned set with an unselected candidate left over that is one
\* exchange away from nothing better, and yet not the best feasible set
C4_LocalNotGlobal ==
  /\ Returned
  /\ n > n_fixed
  /\ Exchanges(ReturnedSet) # {}
  /\ \E S \in Feasible : Objective(S) > Objective(ReturnedSet)

MatrixReturned == pc = "fp_check"

\* C8.  The matrix built for N >= 1 colours is N x N, D(i, i) = 0 for every
\* i and D(i, j) = D(j, i) = metric(colors[i], colors[j]) for every i < j,
\* for each of the three metrics.
C8_MatrixSquareSymmetricZeroDiagonal ==
  MatrixReturned =>
    LET N == size(colors)
    IN  /\ N >= 1
        /\ DOMAIN dist_mat = (0..(N - 1)) \X (0..(N - 1))
        /\ \A a, b \in 0..(N - 1) :
             /\ a = b => dist_mat[<<a, b>>] = 0
             /\ a < b =>
                  /\ dist_mat[<<a, b>>] = MetricValue(metric_type, colors[a], colors[b])
                  /\ dist_mat[<<b, a>>] = dist_mat[<<a, b>>]

\* a matrix of at least three colours with a non-zero distance
C8_MatrixOfThreeColors ==
  /\ MatrixReturned
  /\ size(colors) >= 3
  /\ metric_type = "CIEDE2000"
  /\ dist_mat[<<2, 0>>] > 0

\* C11.  With n = n_fixed the selector exchanges nothing and returns the
\* anchors unchanged: the result is exactly the indices 0, ..., n_fixed-1
\* in their order.
C11_ReturnsAnchorsOnly ==
  (Returned /\ n = n_fixed) =>
     /\ r = InitialSelection(n)
     /\ result = [k \in 0..(n_fixed - 1) |-> k]

\* the smallest distance from candidate c to the anchors and the background
AnchorScore(c) ==
  Min2(MinOver({dist_mat[<<a, c>>] : a \in FixedIndices}),
       IF has_value(bg) THEN dist_mat[<<c, n_colors>>] ELSE DBL_MAX)

\* the candidate a result of one index stands for
SingleChoice == result[0] + n_fixed

\* C12.  When exactly one slot is not an anchor (n - n_fixed = 1), the
\* selected candidate maximises, over all candidates, the smallest of its
\* distances to the anchors and to the background if there is one.
C12_SingleSlotIsFarthest ==
  (Returned /\ n - n_fixed = 1) =>
     \A c \in CandidateIndices : AnchorScore(c) <= AnchorScore(SingleChoice)

\* one slot filled, with a background and no anchor, by a candidate other
\* than the seed that is strictly farther from the background than the seed
C12_ChoseFartherThanSeed ==
  /\ Returned
  /\ n = 1
  /\ n_fixed = 0
  /\ has_value(bg)
  /\ n_candidates >= 3
  /\ SingleChoice # 0
  /\ AnchorScore(SingleChoice) > AnchorScore(0)

\* the number of colours the selector's matrix is built for
N_matrix == n_fixed + n_candidates + IF has_value(bg) THEN 1 ELSE 0

ResourceError ==
  /\ error.type = "std::runtime_error"
  /\ error.what = "Color difference matrix would exceed the limit"

\* C9.  The matrix is constructed only when N * N * 8 bytes are within the
\* budget; otherwise the call fails with the resource error and no matrix
\* is allocated.  N counts the anchors, the candidates and the background.
C9_MatrixOnlyWithinBudget ==
  pc # "fp_start" =>
    /\ size(colors) = N_matrix
    /\ N_matrix * N_matrix * SizeofDouble > max_memory
         => (pc = "fp_thrown" /\ ResourceError /\ DOMAIN dist_mat = {})
    /\ DOMAIN dist_mat # {} => N_matrix * N_matrix * SizeofDouble <= max_memory
    /\ (N_matrix >= 1 /\ N_matrix * N_matrix * SizeofDouble <= max_memory)
         => (DOMAIN dist_mat # {} /\ ~ResourceError)

\* a matrix, background included, that uses the budget to the last byte
C9_BudgetExactlyUsed ==
  /\ MatrixReturned
  /\ N_matrix * N_matrix * SizeofDouble = max_memory
  /\ has_value(bg)

(***************************************************************************)
(* SpecLive: the same call, executed to its end.  A call runs on one       *)
(* thread that keeps executing its next statement.                         *)
(***************************************************************************)
\* the calls of Init whose candidates come from four of the colours
FourColors == {Black, White, Red, Cyan}

InitFour ==
  /\ Init
  /\ \A k \in DOMAIN colors_in : colors_in[k] \in {XYZ(c) : c \in FourColors}

SpecLive == InitFour /\ [][Next]_vars /\ WF_vars(Next)

InSweepLoop == pc \in {"fp_while", "fp_for"}

\* C3.  The sweep loop terminates: a call that has entered the loop leaves
\* it, whatever the (symmetric, zero-diagonal) matrix and n, n_fixed and
\* the background are.
C3_SweepLoopTerminates == InSweepLoop ~> (pc = "fp_sort")

\* the loop left after a sweep that exchanged a point
C3_LeftLoopAfterExchange ==
  /\ pc = "fp_sort"
  /\ r # InitialSelection(n)
  /\ n_fixed > 0
  /\ has_value(bg)

(***************************************************************************)
(* SpecTwice: farthestPoints called a second time with the arguments of    *)
(* the first call.                                                         *)
(***************************************************************************)
Rerun ==
  /\ pc = "fp_done"
  /\ run = 1
  /\ run' = 2
  /\ first_result' = result
  /\ pc' = "fp_start"
  /\ colors' = EmptyVec
  /\ dist_mat' = <<>>
  /\ r' = EmptyVec
  /\ r_c' = EmptyVec
  /\ i' = 0
  /\ set_changed' = FALSE
  /\ result' = EmptyVec
  /\ error' = NoError
  /\ UNCHANGED <<caller, fp_params, sort_memo, sc_vars, omp_vars, lib_vars>>

NextTwice == farthestPoints \/ Rerun

SpecTwice == InitFour /\ [][NextTwice]_vars

Idle == [i |-> -1, left |-> {}]

\* the position of a cell in iteration ii's program order: (ii, ii), then
\* for each j in turn (ii, j), then (j, ii)
CellOrder(ii, c) ==
  IF c = <<ii, ii>> THEN -1
  ELSE IF c[1] = ii THEN 2 * c[2] ELSE 2 * c[1] + 1

\* the cell a thread that has still to write the cells of left writes next
NextCell(ii, left) ==
  CHOOSE c \in left : \A c2 \in left : CellOrder(ii, c) <= CellOrder(ii, c2)

\* the value iteration ii writes to cell c
CellValue(ii, c) ==
  IF c = <<ii, ii>> THEN 0
  ELSE MetricValue(metric_type, colors[ii],
                   colors[IF c[1] = ii THEN c[2] ELSE c[1]])

\* Threads::set(k)
ThreadsSet(k) ==
  /\ pc = "cdm_start"
  /\ IF k > 0
     THEN /\ num_threads' = k
          /\ UNCHANGED error
     ELSE /\ error' = Throw("std::invalid_argument",
                            "Number of threads must be positive")
          /\ UNCHANGED num_threads
  /\ UNCHANGED <<pc, caller, fp_params, colors, dist_mat, r, r_c, i,
                 set_changed, result, rerun_vars, sc_vars, todo, thr, writer,
                 lib_vars>>

\* color_difference.h lines 70-86: the guards, the allocation and the fork
\* of the team
Fork ==
  /\ pc = "cdm_start"
  /\ IF size(colors) < 1
     THEN /\ error' = Throw("std::invalid_argument",
                            "At least one color is required")
          /\ pc' = "cdm_thrown"
          /\ UNCHANGED <<dist_mat, todo, thr, writer>>
     ELSE IF ~checkMatrixSize(size(colors), max_memory)
     THEN /\ error' = Throw("std::runtime_error",
                            "Color difference matrix would exceed the limit")
          /\ pc' = "cdm_thrown"
          /\ UNCHANGED <<dist_mat, todo, thr, writer>>
     ELSE /\ error' = NoError
          /\ dist_mat' = Matrix(size(colors), size(colors))
          /\ todo' = 0..(size(colors) - 1)
          /\ thr' = [t \in 1..num_threads |-> Idle]
          /\ writer' = [c \in DOMAIN Matrix(size(colors), size(colors)) |-> {}]
          /\ pc' = "cdm_fill"
  /\ UNCHANGED <<caller, fp_params, colors, r, r_c, i, set_changed, result,
                 rerun_vars, sc_vars, num_threads, lib_vars>>

\* a thread of the team starts an outer iteration nobody has started
Take(t) ==
  /\ pc = "cdm_fill"
  /\ thr[t] = Idle
  /\ \E ii \in todo :
       /\ thr' = [thr EXCEPT ![t] = [i |-> ii,
                                     left |-> RowCells(size(colors), ii)]]
       /\ todo' = todo \ {ii}
  /\ UNCHANGED <<pc, caller, fp_params, fp_locals, rerun_vars, sc_vars,
                 num_threads, writer, lib_vars>>

\* lines 88-100: a thread's next write; after the last one of its iteration
\* the thread is free again
Write(t) ==
  /\ pc = "cdm_fill"
  /\ thr[t] # Idle
  /\ LET ii == thr[t].i
         c  == NextCell(ii, thr[t].left)
     IN  /\ dist_mat' = [dist_mat EXCEPT ![c] = CellValue(ii, c)]
         /\ writer' = [writer EXCEPT ![c] = @ \cup {ii}]
         /\ thr' = [thr EXCEPT ![t] =
                      IF thr[t].left = {c} THEN Idle
                      ELSE [i |-> ii, left |-> thr[t].left \ {c}]]
  /\ UNCHANGED <<pc, caller, fp_params, colors, r, r_c, i, set_changed,
                 result, error, rerun_vars, sc_vars, num_threads, todo, lib_vars>>

\* the barrier at the end of the loop, and the return
Join ==
  /\ pc = "cdm_fill"
  /\ todo = {}
  /\ \A t \in DOMAIN thr : thr[t] = Idle
  /\ pc' = "cdm_done"
  /\ UNCHANGED <<caller, fp_params, fp_locals, rerun_vars, sc_vars, omp_vars, lib_vars>>

FillColors == {Black, White, Red, Cyan}

InitFill ==
  /\ pc = "cdm_start"
  /\ caller = "main"
  /\ n = 0
  /\ colors_in = EmptyVec
  /\ fixed_points = EmptyVec
  /\ bg = nullopt
  /\ metric_type \in MetricTypes
  /\ max_memory \in {estimateMatrixMemory(2), estimateMatrixMemory(MaxColors + 1)}
  /\ colors \in {XYZs(s) : s \in InjSeqs(FillColors, MaxColors)}
  /\ dist_mat = <<>>
  /\ r = EmptyVec
  /\ r_c = EmptyVec
  /\ i = 0
  /\ set_changed = FALSE
  /\ result = EmptyVec
  /\ error = NoError
  /\ RerunInit
  /\ LibInit
  /\ ScInit
  /\ num_threads \in 1..MaxThreads
  /\ todo = {}
  /\ thr = <<>>
  /\ writer = <<>>

NextFill ==
  \/ \E k \in 0..MaxThreads : ThreadsSet(k)
  \/ Fork
  \/ \E t \in 1..MaxThreads : t \in DOMAIN thr /\ Take(t)
  \/ \E t \in 1..MaxThreads : t \in DOMAIN thr /\ Write(t)
  \/ Join

SpecFill == InitFill /\ [][NextFill]_vars

\* C7.  In the parallel fill, for every thread count and interleaving, no
\* cell is written by two different outer iterations, every cell has been
\* written at the barrier, and the matrix returned equals the one the loop
\* run in order produces; the thread count does not change the result.
C7_ParallelFillEqualsSequential ==
  /\ pc \in {"cdm_fill", "cdm_done"} =>
       \A c \in DOMAIN writer : Cardinality(writer[c]) <= 1
  /\ pc = "cdm_done" =>
       /\ \A c \in DOMAIN writer : writer[c] # {}
       /\ dist_mat = colorDifferenceMatrix(colors, metric_type, max_memory).mat

\* a matrix of three colours partly written by two threads that work on
\* different outer iterations at the same time
C7_TwoThreadsFilled ==
  /\ pc = "cdm_fill"
  /\ size(colors) >= 3
  /\ num_threads >= 2
  /\ thr[1] # Idle
  /\ thr[2] # Idle
  /\ thr[1].i > thr[2].i
  /\ \E c \in DOMAIN writer : writer[c] # {}

(***************************************************************************)
(* The Qualpal builder (qualpal.cpp).                                      *)
(***************************************************************************)
\* a severity s in [0, 1] is held in tenths
FullSeverity == 10

\* A double is an integer of the model or NaN, which every ordered
\* comparison answers with false.
NaN == -1000000

Less(a, b) == a # NaN /\ b # NaN /\ a < b

Greater(a, b) == a # NaN /\ b # NaN /\ a > b

Clamp(x) == IF x < 0 THEN 0 ELSE IF x > 2 THEN 2 ELSE x

\* simulateCvd: the colour moved, in proportion to the severity, towards its
\* image under the deficiency's matrix (protan: r from g, deutan: g from r,
\* tritan: b from g), then clamped; severity 0 is the identity
simulateCvd(rgb, cvd_type, cvd_severity) ==
  LET full == IF cvd_type = "protan" THEN <<rgb[2], rgb[2], rgb[3]>>
              ELSE IF cvd_type = "deutan" THEN <<rgb[1], rgb[1], rgb[3]>>
              ELSE <<rgb[1], rgb[2], rgb[2]>>
  IN  [c \in 1..3 |->
         Clamp(rgb[c] + (cvd_severity * (full[c] - rgb[c])) \div FullSeverity)]

\* std::map iterates its keys in increasing order
CvdOrder == <<"deutan", "protan", "tritan">>

\* qualpal.cpp lines 216-224: every simulation of the cvd map with a
\* positive severity, applied in turn to one colour
RECURSIVE SimulateAll(_, _, _)
SimulateAll(rgb, cvd, k) ==
  IF k = 0 THEN rgb
  ELSE LET before == SimulateAll(rgb, cvd, k - 1)
           type   == CvdOrder[k]
       IN  IF type \in DOMAIN cvd /\ Greater(cvd[type], 0)
           THEN simulateCvd(before, type, cvd[type])
           ELSE before

\* the assembly with the background in front of the pool
AssembleRGB_background_first(fixed, pool, background) ==
  IF has_value(background)
  THEN Concat(PushBack(fixed, background), pool)
  ELSE Concat(fixed, pool)

\* lines 202-213: the fixed palette, then the pool, then the background
AssembleRGB(fixed, pool, background) ==
  IF has_value(background)
  THEN PushBack(Concat(fixed, pool), background)
  ELSE Concat(fixed, pool)

\* the input sources selectColors' switch knows
InputModes == {"RGB", "HEX", "PALETTE", "COLORSPACE"}

\* selectColors without the test of the pool's size
ValidateSelect_no_pool_test(q, nn, fixed) ==
  IF q.mode \notin InputModes
  THEN Throw("std::runtime_error", "No input source configured.")
  ELSE IF size(q.rgb_colors_in) = 0
  THEN Throw("std::runtime_error", "No input colors provided.")
  ELSE IF nn < size(fixed)
  THEN Throw("std::invalid_argument",
             "Requested palette size is less than the size of the existing palette.")
  ELSE NoError

\* selectColors without the default label of its switch
ValidateSelect_no_mode_test(q, nn, fixed) ==
  IF size(q.rgb_colors_in) = 0
  THEN Throw("std::runtime_error", "No input colors provided.")
  ELSE IF nn < size(fixed)
  THEN Throw("std::invalid_argument",
             "Requested palette size is less than the size of the existing palette.")
  ELSE IF size(q.rgb_colors_in) < nn - size(fixed)
  THEN Throw("std::invalid_argument",
             "Requested number of colors exceeds input size")
  ELSE NoError

\* lines 144-200: the exception selectColors throws before it assembles
\* anything, or none
ValidateSelect(q, nn, fixed) ==
  IF q.mode \notin InputModes
  THEN Throw("std::runtime_error", "No input source configured.")
  ELSE IF size(q.rgb_colors_in) = 0
  THEN Throw("std::runtime_error", "No input colors provided.")
  ELSE IF nn < size(fixed)
  THEN Throw("std::invalid_argument",
             "Requested palette size is less than the size of the existing palette.")
  ELSE IF size(q.rgb_colors_in) < nn - size(fixed)
  THEN Throw("std::invalid_argument",
             "Requested number of colors exceeds input size")
  ELSE NoError

\* selectColors' output taken from the simulated colours
OutputColors_simulated(ind, rgb, rgb_mod) ==
  [k \in DOMAIN ind |-> rgb_mod[ind[k]]]

\* lines 236-239: the colours at the selector's indices
OutputColors(ind, rgb, rgb_mod) == [k \in DOMAIN ind |-> rgb[ind[k]]]

Slice(v, from, len) == [k \in 0..(len - 1) |-> v[from + k]]

\* setInputRGB
setInputRGB(cs) ==
  /\ pc = "qp_idle"
  /\ this' = [this EXCEPT !.rgb_colors_in = cs, !.mode = "RGB"]
  /\ UNCHANGED <<pc, caller, fp_params, fp_locals, rerun_vars, fixed_palette,
                 rgb_colors, rgb_colors_mod, palette, omp_vars, lib_vars>>

\* a - b on doubles
Minus(a, b) == IF a = NaN \/ b = NaN THEN NaN ELSE a - b

\* lines 50-79: what setInputColorspace throws, or nothing.  A limit is a
\* pair <<min, max>>, read as lim[1] and lim[2] for the code's lim[0] and
\* lim[1].
CheckColorspace(h_lim, s_or_c_lim, l_lim, space) ==
  IF space = "HSL"
  THEN IF Less(h_lim[1], -360) \/ Greater(h_lim[2], 360)
       THEN Throw("std::invalid_argument", "Hue must be between -360 and 360")
       ELSE IF Greater(Minus(h_lim[2], h_lim[1]), 360)
       THEN Throw("std::invalid_argument", "Hue range must be less than 360")
       ELSE IF Less(s_or_c_lim[1], 0) \/ Greater(s_or_c_lim[2], 1)
       THEN Throw("std::invalid_argument",
                  "Saturation/chroma must be between 0 and 1")
       ELSE IF Less(l_lim[1], 0) \/ Greater(l_lim[2], 1)
       THEN Throw("std::invalid_argument", "Lightness must be between 0 and 1")
       ELSE NoError
  ELSE IF space = "LCHab"
  THEN IF Less(h_lim[1], -360) \/ Greater(h_lim[2], 360)
       THEN Throw("std::invalid_argument", "Hue must be between -360 and 360")
       ELSE IF Less(s_or_c_lim[1], 0)
       THEN Throw("std::invalid_argument", "Chroma must be non-negative")
       ELSE IF Less(l_lim[1], 0) \/ Greater(l_lim[2], 100)
       THEN Throw("std::invalid_argument",
                  "Lightness must be between 0 and 100")
       ELSE NoError
  ELSE NoError

\* setInputColorspace: a failed test throws and nothing is stored
setInputColorspace(h_lim, s_or_c_lim, l_lim, space) ==
  /\ pc = "qp_idle"
  /\ LET e == CheckColorspace(h_lim, s_or_c_lim, l_lim, space)
     IN  IF e # NoError
         THEN /\ error' = e
              /\ pc' = "qp_thrown"
              /\ UNCHANGED this
         ELSE /\ this' = [this EXCEPT !.h_lim = h_lim,
                                      !.s_or_c_lim = s_or_c_lim,
                                      !.l_lim = l_lim,
                                      !.colorspace_input = space,
                                      !.mode = "COLORSPACE"]
              /\ UNCHANGED <<pc, error>>
  /\ UNCHANGED <<caller, fp_params, colors, dist_mat, r, r_c, i, set_changed,
                 result, rerun_vars, fixed_palette, rgb_colors,
                 rgb_colors_mod, palette, omp_vars, lib_vars>>

\* std::map iterates its keys in ascending order
CvdKeys == <<"deutan", "normal", "protan", "tritan">>

\* setCvd's loop from the k-th key on: what the first offending entry throws
RECURSIVE CheckCvd(_, _)
CheckCvd(cvd_params, k) ==
  IF k > Len(CvdKeys) THEN NoError
  ELSE LET cvd_type == CvdKeys[k]
       IN  IF cvd_type \notin DOMAIN cvd_params
           THEN CheckCvd(cvd_params, k + 1)
           ELSE IF \/ Greater(cvd_params[cvd_type], FullSeverity)
                   \/ Less(cvd_params[cvd_type], 0)
           THEN Throw("std::invalid_argument",
                      "cvd_severity must be between 0 and 1")
           ELSE IF cvd_type \notin {"protan", "deutan", "tritan"}
           THEN Throw("std::invalid_argument", "Invalid CVD type")
           ELSE CheckCvd(cvd_params, k + 1)

\* setCvd: the first offending entry throws and nothing is stored
setCvd(cvd_params) ==
  /\ pc = "qp_idle"
  /\ LET e == CheckCvd(cvd_params, 1)
     IN  IF e # NoError
         THEN /\ error' = e
              /\ pc' = "qp_thrown"
              /\ UNCHANGED this
         ELSE /\ this' = [this EXCEPT !.cvd = cvd_params]
              /\ UNCHANGED <<pc, error>>
  /\ UNCHANGED <<caller, fp_params, colors, dist_mat, r, r_c, i, set_changed,
                 result, rerun_vars, fixed_palette, rgb_colors,
                 rgb_colors_mod, palette, omp_vars, lib_vars>>

\* setBackground
setBackground(bg_color) ==
  /\ pc = "qp_idle"
  /\ this' = [this EXCEPT !.bg = bg_color]
  /\ UNCHANGED <<pc, caller, fp_params, fp_locals, rerun_vars, fixed_palette,
                 rgb_colors, rgb_colors_mod, palette, omp_vars, lib_vars>>

\* setMetric
setMetric(metric) ==
  /\ pc = "qp_idle"
  /\ this' = [this EXCEPT !.metric = metric]
  /\ UNCHANGED <<pc, caller, fp_params, fp_locals, rerun_vars, fixed_palette,
                 rgb_colors, rgb_colors_mod, palette, omp_vars, lib_vars>>

\* setMemoryLimit; the limit is handed over in bytes
setMemoryLimit(bytes) ==
  /\ pc = "qp_idle"
  /\ IF bytes <= 0
     THEN /\ error' = Throw("std::invalid_argument",
                            "Memory limit must be greater than 0")
          /\ pc' = "qp_thrown"
          /\ UNCHANGED this
     ELSE /\ this' = [this EXCEPT !.max_memory = bytes]
          /\ UNCHANGED <<pc, error>>
  /\ UNCHANGED <<caller, fp_params, colors, dist_mat, r, r_c, i, set_changed,
                 result, rerun_vars, fixed_palette, rgb_colors,
                 rgb_colors_mod, palette, omp_vars, lib_vars>>

\* selectColors on the builder q up to its call of farthestPoints (lines
\* 140-233).  The call hands over the assembled, simulated colours, whether
\* there is a background and the number of fixed colours; farthestPoints
\* takes them as its fixed points, its candidates and its background.
CallSelect(q, nn, fixed) ==
  /\ n' = nn
  /\ fixed_palette' = fixed
  /\ LET e == ValidateSelect(q, nn, fixed)
     IN  IF e # NoError
         THEN /\ error' = e
              /\ pc' = "sc_thrown"
              /\ UNCHANGED <<caller, colors_in, metric_type, bg, fixed_points,
                             max_memory, rgb_colors, rgb_colors_mod>>
         ELSE LET all == AssembleRGB(fixed, q.rgb_colors_in, q.bg)
                  mod == [k \in DOMAIN all |-> SimulateAll(all[k], q.cvd, 3)]
                  xyz == [k \in DOMAIN mod |-> XYZ(mod[k])]
              IN  /\ rgb_colors' = all
                  /\ rgb_colors_mod' = mod
                  /\ fixed_points' = Slice(xyz, 0, size(fixed))
                  /\ colors_in' = Slice(xyz, size(fixed), size(q.rgb_colors_in))
                  /\ bg' = IF has_value(q.bg) THEN mod[size(all) - 1]
                           ELSE nullopt
                  /\ metric_type' = q.metric
                  /\ max_memory' = q.max_memory
                  /\ caller' = "selectColors"
                  /\ pc' = "fp_start"
                  /\ UNCHANGED error

\* Qualpal::selectColors, called on a builder at rest
selectColors(nn, fixed) ==
  /\ pc = "qp_idle"
  /\ CallSelect(this, nn, fixed)
  /\ UNCHANGED <<colors, dist_mat, r, r_c, i, set_changed, result, rerun_vars,
                 this, palette, omp_vars, lib_vars>>

\* selectColors after farthestPoints has returned (lines 235-241)
SelectReturn ==
  /\ pc = "fp_done"
  /\ caller = "selectColors"
  /\ palette' = OutputColors(result, rgb_colors, rgb_colors_mod)
  /\ pc' = "sc_done"
  /\ UNCHANGED <<caller, fp_params, fp_locals, rerun_vars, this, fixed_palette,
                 rgb_colors, rgb_colors_mod, omp_vars, lib_vars>>

\* lines 244-248
generate(nn) == selectColors(nn, EmptyVec)

\* lines 250-254
extend(pal, nn) == selectColors(nn, pal)

(***************************************************************************)
(* SpecSelect: a builder configured by any calls of its setters, then one  *)
(* generate or extend.                                                     *)
(***************************************************************************)
PoolColors == {Black, Cyan, Yellow}
Pools == {Vec(s) : s \in InjSeqs(PoolColors, MaxPool)}
Anchors == {Vec(s) : s \in SeqsUpTo(AnchorColors, MaxFixed)} \ {EmptyVec}
CvdMaps == {("protan" :> FullSeverity), ("deutan" :> 0),
            ("protan" :> 5) @@ ("tritan" :> FullSeverity),
            ("protan" :> FullSeverity + 1), ("tritan" :> -1),
            ("normal" :> 5), ("normal" :> 5) @@ ("protan" :> FullSeverity + 1),
            ("deutan" :> NaN)}

\* a new builder, nothing called yet
BuilderInit ==
  /\ pc = "qp_idle"
  /\ caller = "main"
  /\ n = 0
  /\ colors_in = EmptyVec
  /\ fixed_points = EmptyVec
  /\ bg = nullopt
  /\ metric_type = "DIN99d"
  /\ max_memory = 0
  /\ FpLocalsInit
  /\ RerunInit
  /\ ScInit
  /\ OmpInit

InitSelect == BuilderInit /\ LibInit

NextSelect ==
  \/ \E cs \in Pools : setInputRGB(cs)
  \/ \E m \in CvdMaps : setCvd(m)
  \/ setBackground(White)
  \/ \E m \in MetricTypes : setMetric(m)
  \/ \E b \in Budgets \cup {0} : setMemoryLimit(b)
  \/ \E nn \in 0..MaxN : generate(nn)
  \/ \E nn \in 0..MaxN : \E pal \in Anchors : extend(pal, nn)
  \/ farthestPoints
  \/ SelectReturn

SpecSelect == InitSelect /\ [][NextSelect]_vars

SelectReturned == pc = "sc_done"

SelectFailed ==
  \/ pc = "sc_thrown"
  \/ pc = "fp_thrown" /\ caller = "selectColors"

\* C2.  A successful extend(anchors, n) with at least one anchor returns n
\* colours, the first |anchors| of which are the anchors in their order.
C2_ExtendReturnsAnchorsFirst ==
  (SelectReturned /\ size(fixed_palette) > 0) =>
     /\ size(palette) = n
     /\ \A k \in 0..(size(fixed_palette) - 1) : palette[k] = fixed_palette[k]

\* the colours fixed ++ rgb_pool ++ bg as the caller gave them
UnmodifiedAssembly == AssembleRGB(fixed_palette, this.rgb_colors_in, this.bg)

\* C5.  select returns, for each index the selector produced and in the
\* selector's order, the colour at that index of the unmodified assembly
\* fixed ++ rgb_pool ++ bg, never a simulated colour, whatever the cvd map.
C5_ReturnsOriginalColors ==
  SelectReturned =>
     /\ DOMAIN palette = DOMAIN result
     /\ \A k \in DOMAIN result : palette[k] = UnmodifiedAssembly[result[k]]

\* a returned palette of two colours, one of which the simulation changes
C5_SimulationChangedReturnedColor ==
  /\ SelectReturned
  /\ size(palette) >= 2
  /\ \E k \in DOMAIN palette : rgb_colors_mod[result[k]] # palette[k]

\* an error of the domain kind: invalid input of the caller, as opposed to
\* the matrix that exceeds its budget
DomainError(e) ==
  \/ e.type = "std::invalid_argument"
  \/ /\ e.type = "std::runtime_error"
     /\ e.what \in {"No input source configured.", "No input colors provided."}

\* the messages of the checks of n against the fixed colours and the pool
ShortfallMessages ==
  {"Requested palette size is less than the size of the existing palette.",
   "Requested number of colors exceeds input size",
   "Requested number of new colors exceeds candidate pool."}

Shortfall ==
  \/ n < size(fixed_palette)
  \/ size(this.rgb_colors_in) < n - size(fixed_palette)

\* C10.  select(n, fixed) fails with a domain error and returns no palette
\* whenever n < |fixed| or the pool holds fewer than n - |fixed| colours;
\* otherwise it does not fail for these reasons.
C10_ShortfallIsDomainError ==
  (SelectReturned \/ SelectFailed) =>
     /\ Shortfall => (SelectFailed /\ DomainError(error) /\ palette = EmptyVec)
     /\ ~Shortfall => error.what \notin ShortfallMessages

\* select refused because a pool that is not empty holds too few colours,
\* under a budget the assembled colours would exceed
C10_PoolTooSmall ==
  /\ pc = "sc_thrown"
  /\ error.what = "Requested number of colors exceeds input size"
  /\ size(this.rgb_colors_in) > 0
  /\ ~checkMatrixSize(size(UnmodifiedAssembly), this.max_memory)

(***************************************************************************)
(* SpecAgain: after a generate(n) has returned, the returned palette is    *)
(* made the input and generate(n) is called again.                         *)
(***************************************************************************)
\* setInputRGB(palette) followed by generate(n), on the builder that has
\* just returned palette from generate(n)
GenerateAgain ==
  /\ pc = "sc_done"
  /\ run = 1
  /\ size(fixed_palette) = 0
  /\ run' = 2
  /\ first_result' = palette
  /\ palette' = EmptyVec
  /\ this' = [this EXCEPT !.rgb_colors_in = palette, !.mode = "RGB"]
  /\ CallSelect(this', n, EmptyVec)
  /\ colors' = EmptyVec
  /\ dist_mat' = <<>>
  /\ r' = EmptyVec
  /\ r_c' = EmptyVec
  /\ i' = 0
  /\ set_changed' = FALSE
  /\ result' = EmptyVec
  /\ UNCHANGED <<sort_memo, omp_vars, lib_vars>>

NextAgain == NextSelect \/ GenerateAgain

SpecAgain == InitSelect /\ [][NextAgain]_vars

\* the colours of a palette, as a set
ColorSet(pal) == {pal[k] : k \in DOMAIN pal}

SecondSelectEnded == run = 2 /\ (SelectReturned \/ SelectFailed)

\* C13 as stated.  select(n) without anchors on a pool that is exactly the
\* n colours a previous select(n) returned returns the same set of colours.
C13_Idempotent ==
  SecondSelectEnded =>
     (SelectReturned /\ ColorSet(palette) = ColorSet(first_result))

\* C13.  For n >= 1, select(n) without anchors on a pool that is exactly
\* the n colours a previous select(n) returned returns the same set of
\* colours.
C13_IdempotentFromOne ==
  (SecondSelectEnded /\ n >= 1) =>
     (SelectReturned /\ ColorSet(palette) = ColorSet(first_result))

\* a second select, with a background, that returned as many colours as the
\* two or more it was given
C13_SecondSelectReturned ==
  /\ SecondSelectEnded
  /\ SelectReturned
  /\ size(first_result) >= 2
  /\ size(palette) = size(first_result)
  /\ has_value(this.bg)

\* the severities of the interval [0, 1]
InUnitInterval(x) == x # NaN /\ 0 <= x /\ x <= FullSeverity

ValidCvd(m) ==
  \A t \in DOMAIN m : t \in {"protan", "deutan", "tritan"} /\ InUnitInterval(m[t])

\* C14.  setCvd rejects with a domain error every map that has a key other
\* than "protan", "deutan", "tritan" or a severity outside [0, 1], and
\* accepts (stores) every map whose keys are among the three and whose
\* severities are all in [0, 1].
C14_SetCvdAcceptsExactlyValidMaps ==
  [][\A m \in CvdMaps :
        setCvd(m) => IF ValidCvd(m)
                     THEN this'.cvd = m /\ pc' = "qp_idle"
                     ELSE pc' = "qp_thrown" /\ DomainError(error')]_vars

\* What setCvd does: the same, except that a NaN severity passes both
\* comparisons of line 93 and is stored.
C14_SetCvdAcceptsNaN ==
  [][\A m \in CvdMaps :
        setCvd(m) =>
           IF \A t \in DOMAIN m : /\ t \in {"protan", "deutan", "tritan"}
                                  /\ (m[t] = NaN \/ InUnitInterval(m[t]))
           THEN this'.cvd = m /\ pc' = "qp_idle"
           ELSE pc' = "qp_thrown" /\ DomainError(error')]_vars

\* selectColors has been called (by generate or by extend)
SelectCalled == pc \notin {"qp_idle", "qp_thrown"}

\* C15.  The input mode has no default: generate(n) or extend(anchors, n)
\* on a builder on which no input setter has been called throws "No input
\* source configured." and returns no palette.
C15_NoInputSourceFails ==
  (SelectCalled /\ this.mode = "NONE") =>
     /\ pc = "sc_thrown"
     /\ error = Throw("std::runtime_error", "No input source configured.")
     /\ palette = EmptyVec

\* extend(anchors, n) called on a builder with a background and a CVD map
\* but no input source
C15_ExtendWithoutInput ==
  /\ SelectCalled
  /\ this.mode = "NONE"
  /\ size(fixed_palette) > 0
  /\ n > size(fixed_palette)
  /\ has_value(this.bg)
  /\ DOMAIN this.cvd # {}

(***************************************************************************)
(* SpecColorspace: calls of setInputColorspace on a new builder.           *)
(***************************************************************************)
ColorspaceTypes == {"HSL", "LCHab"}

HueLims == {<<0, 360>>, <<-90, 90>>, <<-361, 0>>, <<-360, 360>>,
            <<400, 300>>, <<NaN, 90>>}

SOrCLims == {<<0, 1>>, <<0, 2>>, <<-1, 1>>, <<5, -3>>}

LLims == {<<0, 1>>, <<0, 100>>, <<0, 101>>, <<150, 50>>}

NextColorspace ==
  \E h \in HueLims : \E sc \in SOrCLims : \E l \in LLims :
     \E space \in ColorspaceTypes : setInputColorspace(h, sc, l, space)

SpecColorspace == InitSelect /\ [][NextColorspace]_vars

\* lo <= x <= hi on doubles
Within(x, lo, hi) == x # NaN /\ lo <= x /\ x <= hi

\* the limits of a range triple of the given kind
SatisfiesLimits(h, sc, l, space) ==
  IF space = "HSL"
  THEN /\ Within(h[1], -360, 360) /\ Within(h[2], -360, 360)
       /\ h[2] - h[1] <= 360
       /\ Within(sc[1], 0, 1) /\ Within(sc[2], 0, 1)
       /\ Within(l[1], 0, 1) /\ Within(l[2], 0, 1)
  ELSE /\ Within(h[1], 0, 360) /\ Within(h[2], 0, 360)
       /\ sc[1] # NaN /\ sc[1] >= 0 /\ sc[2] # NaN /\ sc[2] >= 0
       /\ Within(l[1], 0, 100) /\ Within(l[2], 0, 100)

ColorspaceStored(h, sc, l, space) ==
  /\ this'.h_lim = h
  /\ this'.s_or_c_lim = sc
  /\ this'.l_lim = l
  /\ this'.colorspace_input = space
  /\ this'.mode = "COLORSPACE"
  /\ pc' = "qp_idle"

\* C16.  setInputColorspace accepts a range triple exactly when it satisfies
\* the limits of its kind (HSL: hue bounds in [-360, 360] with h_max - h_min
\* <= 360, s and l bounds in [0, 1]; LCHab: hue bounds in [0, 360], chroma
\* bounds >= 0, lightness bounds in [0, 100]) and otherwise fails with a
\* domain error.
C16_AcceptsExactlyWithinLimits ==
  [][\A h \in HueLims : \A sc \in SOrCLims : \A l \in LLims :
       \A space \in ColorspaceTypes :
          setInputColorspace(h, sc, l, space) =>
             IF SatisfiesLimits(h, sc, l, space)
             THEN ColorspaceStored(h, sc, l, space)
             ELSE pc' = "qp_thrown" /\ DomainError(error')]_vars

\* What setInputColorspace does keep of it: a triple within its limits is
\* accepted, and every failure is a domain error.
C16_WithinLimitsAccepted ==
  [][\A h \in HueLims : \A sc \in SOrCLims : \A l \in LLims :
       \A space \in ColorspaceTypes :
          setInputColorspace(h, sc, l, space) =>
             /\ SatisfiesLimits(h, sc, l, space)
                   => ColorspaceStored(h, sc, l, space)
             /\ pc' = "qp_thrown" => DomainError(error')]_vars

(***************************************************************************)
(* Hex strings.  A std::string is a sequence of characters; the channels   *)
(* of an RGB made from one are counted in 255ths, so r_value is the byte.  *)
(***************************************************************************)
\* largest length of a string handed to RGB or to setInputHex
MaxHexLength == 7

LowerDigits == <<"0", "1", "2", "3", "4", "5", "6", "7", "8", "9",
                 "a", "b", "c", "d", "e", "f">>

UpperDigits == <<"0", "1", "2", "3", "4", "5", "6", "7", "8", "9",
                 "A", "B", "C", "D", "E", "F">>

\* [A-Fa-f0-9]
IsHexDigit(c) == \E k \in 1..16 : LowerDigits[k] = c \/ UpperDigits[k] = c

DigitValue(c) ==
  (CHOOSE k \in 1..16 : LowerDigits[k] = c \/ UpperDigits[k] = c) - 1

\* std::regex_match with ^#([A-Fa-f0-9]{6}|[A-Fa-f0-9]{3})$
isValidHexColor(color) ==
  /\ Len(color) \in {4, 7}
  /\ color[1] = "#"
  /\ \A k \in 2..Len(color) : IsHexDigit(color[k])

\* std::string::substr(pos, len), for pos within the string
substr(str, pos, len) ==
  SubSeq(str, pos + 1, IF pos + len > Len(str) THEN Len(str) ELSE pos + len)

\* A std::stringstream: what has been written and how much of it was read.
NewStream == [buf |-> <<>>, get |-> 0]

\* ss << str
Insert(ss, str) == [ss EXCEPT !.buf = @ \o str]

\* the number of hex digits in the buffer from position from (counted from 0)
RECURSIVE DigitRun(_, _)
DigitRun(buf, from) ==
  IF from < Len(buf) /\ IsHexDigit(buf[from + 1])
  THEN 1 + DigitRun(buf, from + 1)
  ELSE 0

\* the value of a string of hex digits
RECURSIVE HexValue(_)
HexValue(digits) ==
  IF digits = <<>> THEN 0
  ELSE 16 * HexValue(SubSeq(digits, 1, Len(digits) - 1))
       + DigitValue(digits[Len(digits)])

\* ss >> value under std::hex, then ss.clear(): the digits at the read
\* position are consumed; with none there the value is 0 and nothing is
\* consumed
Extract(ss) ==
  LET len == DigitRun(ss.buf, ss.get)
  IN  [value |-> HexValue(SubSeq(ss.buf, ss.get + 1, ss.get + len)),
       ss |-> [ss EXCEPT !.get = @ + len]]

\* the three extractions of the constructor, for the three pieces written
ReadChannels(p1, p2, p3) ==
  LET e1 == Extract(Insert(NewStream, p1))
      e2 == Extract(Insert(e1.ss, p2))
      e3 == Extract(Insert(e2.ss, p3))
  IN  [r_value |-> e1.value, g_value |-> e2.value, b_value |-> e3.value]

Aborted == [aborted |-> TRUE]

\* RGB::RGB(const std::string& hex), in a build with assertions (ndebug
\* false) or without
RGBFromHex(str, ndebug) ==
  IF ~ndebug /\ (Len(str) = 0 \/ str[1] # "#")
  THEN Aborted
  ELSE IF ~ndebug /\ Len(str) \notin {4, 7}
  THEN Aborted
  ELSE IF Len(str) = 4
  THEN ReadChannels(substr(str, 1, 1) \o substr(str, 1, 1),
                    substr(str, 2, 1) \o substr(str, 2, 1),
                    substr(str, 3, 1) \o substr(str, 3, 1))
  ELSE IF Len(str) = 7
  THEN ReadChannels(substr(str, 1, 2), substr(str, 3, 2), substr(str, 5, 2))
  ELSE [r_value |-> 0, g_value |-> 0, b_value |-> 0]

\* std::setw(2) without std::setfill('0')
FormatByte_no_setfill(byte) ==
  IF byte < 16 THEN <<" ", LowerDigits[byte + 1]>>
  ELSE <<LowerDigits[(byte \div 16) + 1], LowerDigits[(byte % 16) + 1]>>

\* ss << std::setw(2) << int under std::hex and std::setfill('0')
FormatByte(byte) ==
  IF byte < 16 THEN <<"0", LowerDigits[byte + 1]>>
  ELSE <<LowerDigits[(byte \div 16) + 1], LowerDigits[(byte % 16) + 1]>>

\* RGB::hex
RGBhex(c) ==
  <<"#">> \o FormatByte(c.r_value) \o FormatByte(c.g_value)
          \o FormatByte(c.b_value)

\* setInputHex: the first invalid string throws and nothing is stored
setInputHex(hex_colors) ==
  /\ pc = "qp_idle"
  /\ IF \E k \in DOMAIN hex_colors : ~isValidHexColor(hex_colors[k])
     THEN /\ error' = Throw("std::invalid_argument", "Invalid hex color")
          /\ pc' = "qp_thrown"
          /\ UNCHANGED this
     ELSE /\ this' = [this EXCEPT !.hex_colors = hex_colors, !.mode = "HEX"]
          /\ UNCHANGED <<pc, error>>
  /\ UNCHANGED <<caller, fp_params, colors, dist_mat, r, r_c, i, set_changed,
                 result, rerun_vars, fixed_palette, rgb_colors,
                 rgb_colors_mod, palette, omp_vars, lib_vars>>

(***************************************************************************)
(* SpecHex: a string is handed to setInputHex or made into an RGB, whose   *)
(* hex() is then taken.                                                    *)
(***************************************************************************)
HexChars == {"#", "0", "a", "F", "g"}

HexStrings == SeqsUpTo(HexChars, MaxHexLength)

InitHex ==
  /\ BuilderInit
  /\ hex \in HexStrings
  /\ rgb_value = nullopt
  /\ hex_out = <<>>
  /\ ApInit
  /\ PureInit

\* colors::RGB(hex)
Construct ==
  /\ pc = "qp_idle"
  /\ \E ndebug \in BOOLEAN :
        LET c == RGBFromHex(hex, ndebug)
        IN  IF c = Aborted
            THEN pc' = "rgb_aborted" /\ UNCHANGED rgb_value
            ELSE pc' = "rgb_done" /\ rgb_value' = c
  /\ UNCHANGED <<caller, fp_params, fp_locals, rerun_vars, sc_vars, omp_vars,
                 hex, hex_out, ap_vars, pure_vars>>

\* .hex() on the constructed colour
Hex ==
  /\ pc = "rgb_done"
  /\ hex_out' = RGBhex(rgb_value)
  /\ pc' = "hex_done"
  /\ UNCHANGED <<caller, fp_params, fp_locals, rerun_vars, sc_vars, omp_vars,
                 hex, rgb_value, ap_vars, pure_vars>>

NextHex ==
  \/ setInputHex(Vec(<<hex>>))
  \/ setInputHex(Vec(<<<<"#", "0", "a", "F">>, hex>>))
  \/ Construct
  \/ Hex

SpecHex == InitHex /\ [][NextHex]_vars

\* ^#([0-9a-fA-F]{3}|[0-9a-fA-F]{6})$
MatchesHexPattern(str) ==
  /\ Len(str) > 0
  /\ str[1] = "#"
  /\ \/ Len(str) = 4
     \/ Len(str) = 7
  /\ \A k \in 2..Len(str) :
        str[k] \in {"0", "1", "2", "3", "4", "5", "6", "7", "8", "9",
                    "a", "b", "c", "d", "e", "f", "A", "B", "C", "D", "E", "F"}

Constructed == pc \in {"rgb_done", "rgb_aborted", "rgb_thrown", "hex_done"}

\* C17.  Constructing an RGB colour from a string that does not match
\* ^#([0-9a-fA-F]{3}|[0-9a-fA-F]{6})$ fails with a domain error; no RGB
\* value is produced from an invalid hex string.
C17_InvalidHexFails ==
  (Constructed /\ ~MatchesHexPattern(hex)) =>
     /\ pc = "rgb_thrown"
     /\ DomainError(error)
     /\ rgb_value = nullopt

\* What holds of the builder's setter: setInputHex throws a domain error
\* when one of its strings does not match the pattern, and stores the list
\* otherwise.
C17_SetInputHexRejectsInvalid ==
  [][\A l \in {Vec(<<hex>>), Vec(<<<<"#", "0", "a", "F">>, hex>>)} :
        setInputHex(l) =>
           IF MatchesHexPattern(hex)
           THEN this'.hex_colors = l /\ this'.mode = "HEX" /\ pc' = "qp_idle"
           ELSE pc' = "qp_thrown" /\ DomainError(error') /\ this' = this]_vars

ToLower(c) ==
  IF \E k \in 1..16 : UpperDigits[k] = c
  THEN LowerDigits[CHOOSE k \in 1..16 : UpperDigits[k] = c]
  ELSE c

\* lowercase, six digits, every digit of a three-digit form doubled
Normalised(str) ==
  IF Len(str) = 4
  THEN <<"#", ToLower(str[2]), ToLower(str[2]), ToLower(str[3]),
         ToLower(str[3]), ToLower(str[4]), ToLower(str[4])>>
  ELSE [k \in 1..Len(str) |-> ToLower(str[k])]

\* C18.  Hex round trip: for every valid hex string h (3 or 6 digits, any
\* letter case), RGB(h).hex() is the normalised form of h.
C18_HexRoundTrip ==
  (pc = "hex_done" /\ MatchesHexPattern(hex)) => hex_out = Normalised(hex)

\* "#aF0" came back as "#aaff00"
C18_ShortFormDoubled ==
  /\ pc = "hex_done"
  /\ hex = <<"#", "a", "F", "0">>
  /\ hex_out = <<"#", "a", "a", "f", "f", "0", "0">>

(***************************************************************************)
(* analyzePalette.  Its parameters colors, bg and max_memory, its result   *)
(* and the exception that ends it are held in the variables of those       *)
(* names, its parameter metric in metric_type.                             *)
(***************************************************************************)
\* line 16 alone: the caller's map as it is
WithNormal_as_given(cvd) == cvd

\* lines 16-17: the caller's map with "normal" set to 0
WithNormal(cvd) ==
  [t \in DOMAIN cvd \cup {"normal"} |-> IF t = "normal" THEN 0 ELSE cvd[t]]

\* the keys of a map in the order std::map iterates them
KeysInOrder(m) == SelectSeq(CvdKeys, LAMBDA t : t \in DOMAIN m)

\* lines 20-30 without the test of the severity: a listed deficiency is
\* simulated in full
SimulatedFor_in_full(c, cvd_type, severity) ==
  IF cvd_type # "normal"
  THEN simulateCvd(c, cvd_type, FullSeverity)
  ELSE c

\* lines 20-30
SimulatedFor(c, cvd_type, severity) ==
  IF cvd_type # "normal" /\ Greater(severity, 0)
  THEN simulateCvd(c, cvd_type, severity)
  ELSE c

\* lines 41-54
MinDistances(diff_matrix, nrow) ==
  [ii \in 0..(nrow - 1) |->
     MinOver({diff_matrix[<<ii, j>>] : j \in (0..(nrow - 1)) \ {ii}})]

\* lines 56-76
BgMinDistance(xyz_colors, simulated_bg, mt) ==
  IF has_value(simulated_bg)
  THEN MinOver({MetricValue(mt, xyz_colors[k], XYZ(simulated_bg)) :
                  k \in DOMAIN xyz_colors})
  ELSE NaN

\* lines 20-79: one pass of the loop, for one key: the analysis stored
\* under it, or the exception of colorDifferenceMatrix
AnalyzeOne(cs, background, mt, max_bytes, cvd_type, severity) ==
  LET simulated_colors ==
        [k \in DOMAIN cs |-> SimulatedFor(cs[k], cvd_type, severity)]
      simulated_bg ==
        IF has_value(background)
        THEN SimulatedFor(background, cvd_type, severity)
        ELSE nullopt
      xyz_colors == [k \in DOMAIN cs |-> XYZ(simulated_colors[k])]
      m == colorDifferenceMatrix(xyz_colors, mt, max_bytes)
  IN  IF m.error # NoError
      THEN [error |-> m.error]
      ELSE [error |-> NoError,
            analysis |->
              [difference_matrix |-> m.mat,
               min_distances |-> MinDistances(m.mat, size(cs)),
               bg_min_distance |-> BgMinDistance(xyz_colors, simulated_bg, mt)]]

\* lines 14-17
AnalyzeStart ==
  /\ pc = "ap_start"
  /\ result' = <<>>
  /\ cvd_types' = WithNormal(cvd_arg)
  /\ cvd_done' = 0
  /\ pc' = "ap_loop"
  /\ UNCHANGED <<caller, fp_params, colors, dist_mat, r, r_c, i, set_changed,
                 error, rerun_vars, sc_vars, omp_vars, hex_vars, pure_vars, cvd_arg>>

\* lines 19-80: the loop's pass for the next key
AnalyzeVision ==
  /\ pc = "ap_loop"
  /\ cvd_done < Len(KeysInOrder(cvd_types))
  /\ LET cvd_type == KeysInOrder(cvd_types)[cvd_done + 1]
         one == AnalyzeOne(colors, bg, metric_type, max_memory, cvd_type,
                           cvd_types[cvd_type])
     IN  IF one.error # NoError
         THEN /\ error' = one.error
              /\ pc' = "ap_thrown"
              /\ UNCHANGED <<result, cvd_done>>
         ELSE /\ result' = [t \in DOMAIN result \cup {cvd_type} |->
                              IF t = cvd_type THEN one.analysis ELSE result[t]]
              /\ cvd_done' = cvd_done + 1
              /\ UNCHANGED <<pc, error>>
  /\ UNCHANGED <<caller, fp_params, colors, dist_mat, r, r_c, i, set_changed,
                 rerun_vars, sc_vars, omp_vars, hex_vars, pure_vars,
                 cvd_arg, cvd_types>>

\* line 82
AnalyzeReturn ==
  /\ pc = "ap_loop"
  /\ cvd_done = Len(KeysInOrder(cvd_types))
  /\ pc' = "ap_done"
  /\ UNCHANGED <<caller, fp_params, fp_locals, rerun_vars, sc_vars, omp_vars,
                 lib_vars>>

analyzePalette == AnalyzeStart \/ AnalyzeVision \/ AnalyzeReturn

(***************************************************************************)
(* SpecAnalyze: one call of analyzePalette.                                *)
(***************************************************************************)
PaletteColors == {Black, Red, Cyan}

AnalysisCvdMaps == {<<>>, ("protan" :> FullSeverity),
                    ("deutan" :> 5) @@ ("tritan" :> 0),
                    ("normal" :> FullSeverity),
                    ("normal" :> 5) @@ ("protan" :> FullSeverity)}

InitAnalyze ==
  /\ pc = "ap_start"
  /\ caller = "main"
  /\ n = 0
  /\ colors_in = EmptyVec
  /\ fixed_points = EmptyVec
  /\ bg \in {nullopt, White}
  /\ metric_type \in {"DIN99d", "CIE76"}
  /\ max_memory \in {estimateMatrixMemory(MaxColors - 1),
                     estimateMatrixMemory(MaxColors + 1)}
  /\ colors \in {Vec(s) : s \in SeqsUpTo(PaletteColors, MaxColors)}
  /\ dist_mat = <<>>
  /\ r = EmptyVec
  /\ r_c = EmptyVec
  /\ i = 0
  /\ set_changed = FALSE
  /\ result = <<>>
  /\ error = NoError
  /\ RerunInit
  /\ ScInit
  /\ OmpInit
  /\ hex = <<>>
  /\ rgb_value = nullopt
  /\ hex_out = <<>>
  /\ cvd_arg \in AnalysisCvdMaps
  /\ cvd_types = <<>>
  /\ cvd_done = 0
  /\ PureInit

SpecAnalyze == InitAnalyze /\ [][analyzePalette]_vars

AnalysisReturned == pc = "ap_done"

\* the analysis of the colours and the background as they were passed
UnsimulatedAnalysis ==
  LET xyz == [k \in DOMAIN colors |-> XYZ(colors[k])]
      m == colorDifferenceMatrix(xyz, metric_type, max_memory).mat
  IN  [difference_matrix |-> m,
       min_distances |->
         [ii \in DOMAIN colors |->
            MinOver({m[<<ii, j>>] : j \in DOMAIN colors \ {ii}})],
       bg_min_distance |->
         IF has_value(bg)
         THEN MinOver({MetricValue(metric_type, xyz[k], XYZ(bg)) :
                         k \in DOMAIN colors})
         ELSE NaN]

\* C19.  analyzePalette returns exactly one entry per key of the cvd map
\* plus one entry "normal", and the "normal" entry is computed from the
\* unsimulated colours and background, also when the caller's map has a
\* key "normal" with a positive severity.
C19_NormalAlwaysUnsimulated ==
  AnalysisReturned =>
     /\ DOMAIN result = DOMAIN cvd_arg \cup {"normal"}
     /\ result["normal"] = UnsimulatedAnalysis

\* returned for a caller's map with "normal" at a positive severity, where
\* a simulation changed the analysis of another key
C19_CallerPassedNormal ==
  /\ AnalysisReturned
  /\ "normal" \in DOMAIN cvd_arg
  /\ cvd_arg["normal"] > 0
  /\ has_value(bg)
  /\ \E t \in DOMAIN result : result[t] # result["normal"]

\* C20 as stated.  In every entry, min_distances has one value per input
\* colour, min_distances[i] is the minimum over j # i of
\* difference_matrix(i, j), and it is NaN when the palette has a single
\* colour.
C20_MinDistancesNaNForOne ==
  AnalysisReturned =>
     \A t \in DOMAIN result :
        /\ DOMAIN result[t].min_distances = DOMAIN colors
        /\ \A ii \in DOMAIN colors :
              result[t].min_distances[ii] =
                IF size(colors) = 1 THEN NaN
                ELSE CHOOSE d \in {result[t].difference_matrix[<<ii, j>>] :
                                     j \in DOMAIN colors \ {ii}} :
                       \A j \in DOMAIN colors \ {ii} :
                          d <= result[t].difference_matrix[<<ii, j>>]

\* What analyzePalette does: the same for two colours or more, and for a
\* single colour the value the minimum starts from,
\* std::numeric_limits<double>::max().
C20_MinDistancesMaxForOne ==
  AnalysisReturned =>
     \A t \in DOMAIN result :
        /\ DOMAIN result[t].min_distances = DOMAIN colors
        /\ \A ii \in DOMAIN colors :
              result[t].min_distances[ii] =
                IF size(colors) = 1 THEN DBL_MAX
                ELSE CHOOSE d \in {result[t].difference_matrix[<<ii, j>>] :
                                     j \in DOMAIN colors \ {ii}} :
                       \A j \in DOMAIN colors \ {ii} :
                          d <= result[t].difference_matrix[<<ii, j>>]

(***************************************************************************)
(* SpecZero: SpecSelect; a generate or extend that returned with an empty  *)
(* cvd map is repeated with a map of zero severities, and a returned       *)
(* palette is handed to analyzePalette with the builder's settings.        *)
(***************************************************************************)
ZeroCvdMaps == {("deutan" :> 0), ("protan" :> 0) @@ ("tritan" :> 0)}

\* setCvd(m) with zero severities, then the same generate or extend again
RepeatWithZeroCvd ==
  /\ pc = "sc_done"
  /\ run = 1
  /\ this.cvd = <<>>
  /\ \E m \in ZeroCvdMaps :
        /\ CheckCvd(m, 1) = NoError
        /\ this' = [this EXCEPT !.cvd = m]
  /\ run' = 2
  /\ first_result' = palette
  /\ palette' = EmptyVec
  /\ CallSelect(this', n, fixed_palette)
  /\ colors' = EmptyVec
  /\ dist_mat' = <<>>
  /\ r' = EmptyVec
  /\ r_c' = EmptyVec
  /\ i' = 0
  /\ set_changed' = FALSE
  /\ result' = EmptyVec
  /\ UNCHANGED <<sort_memo, omp_vars, lib_vars>>

\* analyzePalette(palette, metric, cvd, bg, max_memory) on a returned palette
AnalyzeReturned ==
  /\ pc = "sc_done"
  /\ colors' = palette
  /\ bg' = this.bg
  /\ metric_type' = this.metric
  /\ max_memory' = this.max_memory
  /\ cvd_arg' = this.cvd
  /\ pc' = "ap_start"
  /\ UNCHANGED <<caller, n, colors_in, fixed_points, dist_mat, r, r_c, i,
                 set_changed, result, error, rerun_vars, sc_vars, omp_vars,
                 hex_vars, pure_vars, cvd_types, cvd_done>>

NextZero == NextSelect \/ RepeatWithZeroCvd \/ AnalyzeReturned \/ analyzePalette

SpecZero == InitSelect /\ [][NextZero]_vars

\* C21.  Severity 0 is the identity: generate or extend with a cvd map whose
\* severities are all 0 returns the palette it returned with an empty map,
\* and analyzePalette's entry for a type of severity 0 equals its "normal"
\* entry.
C21_SeverityZeroIsIdentity ==
  /\ SecondSelectEnded => (SelectReturned /\ palette = first_result)
  /\ AnalysisReturned =>
        \A t \in DOMAIN cvd_arg : cvd_arg[t] = 0 => result[t] = result["normal"]

\* a palette of two colours, returned a second time with zero severities,
\* has been analysed with them
C21_RepeatedAndAnalysed ==
  /\ AnalysisReturned
  /\ run = 2
  /\ size(palette) >= 2
  /\ colors = palette
  /\ palette = first_result
  /\ has_value(this.bg)
  /\ \E t \in DOMAIN cvd_arg : cvd_arg[t] = 0

(***************************************************************************)
(* SpecCalls: a configured builder on which generate or extend is called,  *)
(* then any generate or extend, then the first call again; no setter is    *)
(* called in between.  A call that threw has been caught by the caller.    *)
(***************************************************************************)
ConfiguredBuilders ==
  {[NewQualpal EXCEPT !.mode = "RGB", !.rgb_colors_in = cs, !.cvd = m,
                      !.bg = b] :
     cs \in Pools, m \in {<<>>, ("protan" :> FullSeverity)},
     b \in {nullopt, White}}

InitCalls ==
  /\ pc = "qp_idle"
  /\ caller = "main"
  /\ n = 0
  /\ colors_in = EmptyVec
  /\ fixed_points = EmptyVec
  /\ bg = nullopt
  /\ metric_type = "DIN99d"
  /\ max_memory = 0
  /\ FpLocalsInit
  /\ RerunInit
  /\ this \in ConfiguredBuilders
  /\ fixed_palette = EmptyVec
  /\ rgb_colors = EmptyVec
  /\ rgb_colors_mod = EmptyVec
  /\ palette = EmptyVec
  /\ OmpInit
  /\ LibInit

SelectEnded == SelectReturned \/ SelectFailed

\* what a call that has ended has given its caller
Outcome ==
  [n |-> n, fixed_palette |-> fixed_palette, returned |-> SelectReturned,
   palette |-> palette, error |-> IF SelectReturned THEN NoError ELSE error]

\* generate(nn) or extend(fixed, nn) after an earlier call has ended; the
\* third call is the first one again
NextCall(nn, fixed) ==
  /\ SelectEnded
  /\ run < 3
  /\ run = 2 => (nn = first_result.n /\ fixed = first_result.fixed_palette)
  /\ run' = run + 1
  /\ first_result' = IF run = 1 THEN Outcome ELSE first_result
  /\ palette' = EmptyVec
  /\ CallSelect(this, nn, fixed)
  /\ colors' = EmptyVec
  /\ dist_mat' = <<>>
  /\ r' = EmptyVec
  /\ r_c' = EmptyVec
  /\ i' = 0
  /\ set_changed' = FALSE
  /\ result' = EmptyVec
  /\ UNCHANGED <<this, sort_memo, omp_vars, lib_vars>>

NextCalls ==
  \/ \E nn \in 0..MaxN : generate(nn)
  \/ \E nn \in 0..MaxN : \E pal \in Anchors : extend(pal, nn)
  \/ farthestPoints
  \/ SelectReturn
  \/ \E nn \in 0..MaxN : \E pal \in Anchors \cup {EmptyVec} : NextCall(nn, pal)

SpecCalls == InitCalls /\ [][NextCalls]_vars

RECURSIVE Gcd(_, _)
Gcd(a, b) == IF b = 0 THEN a ELSE Gcd(b, a % b)

Magnitude(a) == IF a < 0 THEN -a ELSE a

Frac(num, den) ==
  LET g == Gcd(Magnitude(num), den) IN << num \div g, den \div g >>

Times(p, q) ==
  LET g1 == Gcd(Magnitude(p[1]), q[2])
      g2 == Gcd(Magnitude(q[1]), p[2])
  IN  Frac((p[1] \div g1) * (q[1] \div g2), (p[2] \div g2) * (q[2] \div g1))

Over(p, q) ==
  Times(p, IF q[1] < 0 THEN << -q[2], -q[1] >> ELSE << q[2], q[1] >>)

Plus(p, q) ==
  LET g == Gcd(p[2], q[2])
  IN  Frac(p[1] * (q[2] \div g) + q[1] * (p[2] \div g), (p[2] \div g) * q[2])

Neg(p) == << -p[1], p[2] >>

Sub(p, q) == Plus(p, Neg(q))

\* p < q and p > q on doubles, by the signs and, for two fractions of the
\* same sign, by their quotient
Below(p, q) ==
  IF p[1] = 0 THEN q[1] > 0
  ELSE IF p[1] < 0
    THEN q[1] >= 0 \/ LET d == Over(Neg(p), Neg(q)) IN d[1] > d[2]
    ELSE q[1] > 0 /\ LET d == Over(p, q) IN d[1] < d[2]

Above(p, q) == Below(q, p)

Whole(k) == << k, 1 >>

\* std::pow(x, 3)
Pow3(x) == Times(x, Times(x, x))

\* std::cbrt(x), for the fractions whose cube root is a fraction
Cbrt(x) ==
  << CHOOSE a \in 0..x[1] : a * a <= x[1] /\ a * a * a = x[1],
     CHOOSE b \in 1..x[2] : b * b <= x[2] /\ b * b * b = x[2] >>

\* std::fabs
Fabs(p) == << Magnitude(p[1]), p[2] >>

\* std::max(v, 0.0)
MaxZero(v) == IF Below(v, Whole(0)) THEN Whole(0) ELSE v

\* std::clamp(v, lo, hi)
clamp(v, lo, hi) == IF Below(v, lo) THEN lo ELSE IF Below(hi, v) THEN hi ELSE v

\* the white point { 1, 1, 1 }
EqualEnergy == << Whole(1), Whole(1), Whole(1) >>

\* XYZ::XYZ(const Lab&, white_point)
XYZFromLab(lab, white_point) ==
  LET l == lab[1]
      a == lab[2]
      b == lab[3]
      epsilon == Frac(216, 24389)
      kappa == Frac(24389, 27)
      fy == Over(Plus(l, Whole(16)), Whole(116))
      fx == Plus(Over(a, Whole(500)), fy)
      fz == Sub(fy, Over(b, Whole(200)))
      xr == IF Above(Pow3(fx), epsilon)
              THEN Pow3(fx)
              ELSE Over(Sub(Times(Whole(116), fx), Whole(16)), kappa)
      yr == IF Above(l, Times(kappa, epsilon))
              THEN Pow3(Over(Plus(l, Whole(16)), Whole(116)))
              ELSE Over(l, kappa)
      zr == IF Above(Pow3(fz), epsilon)
              THEN Pow3(fz)
              ELSE Over(Sub(Times(Whole(116), fz), Whole(16)), kappa)
  IN  << MaxZero(Times(xr, white_point[1])),
         MaxZero(Times(yr, white_point[2])),
         MaxZero(Times(zr, white_point[3])) >>

\* Lab::Lab(const XYZ&, white_point)
LabFromXYZ(xyz, white_point) ==
  LET epsilon == Frac(8856, 1000000)
      kappa == Frac(9033, 10)
      xr == Over(xyz[1], white_point[1])
      yr == Over(xyz[2], white_point[2])
      zr == Over(xyz[3], white_point[3])
      F(t) == IF Above(t, epsilon)
                THEN Cbrt(t)
                ELSE Over(Plus(Times(kappa, t), Whole(16)), Whole(116))
      fx == F(xr)
      fy == F(yr)
      fz == F(zr)
  IN  << clamp(Sub(Times(Whole(116), fy), Whole(16)), Whole(0), Whole(100)),
         clamp(Times(Whole(500), Sub(fx, fy)), Whole(-128), Whole(127)),
         clamp(Times(Whole(200), Sub(fy, fz)), Whole(-128), Whole(127)) >>

\* the greys Lab(k / 10, 0, 0) up to lightness 8
DarkGreys == { << Frac(k, 10), Whole(0), Whole(0) >> : k \in 1..80 }

InitConvert ==
  /\ BuilderInit
  /\ hex = <<>>
  /\ rgb_value = nullopt
  /\ hex_out = <<>>
  /\ ApInit
  /\ lab_value \in DarkGreys
  /\ xyz_value = nullopt
  /\ lab_again = nullopt
  /\ grid = EmptyVec

\* colors::XYZ xyz(lab, { 1, 1, 1 })
ToXYZ ==
  /\ xyz_value = nullopt
  /\ xyz_value' = XYZFromLab(lab_value, EqualEnergy)
  /\ UNCHANGED <<pc, caller, fp_params, fp_locals, rerun_vars, sc_vars,
                 omp_vars, hex_vars, ap_vars, lab_value, lab_again, grid>>

\* colors::Lab again(xyz, { 1, 1, 1 })
ToLab ==
  /\ xyz_value # nullopt
  /\ lab_again = nullopt
  /\ lab_again' = LabFromXYZ(xyz_value, EqualEnergy)
  /\ UNCHANGED <<pc, caller, fp_params, fp_locals, rerun_vars, sc_vars,
                 omp_vars, hex_vars, ap_vars, lab_value, xyz_value, grid>>

NextConvert == ToXYZ \/ ToLab

SpecConvert == InitConvert /\ [][NextConvert]_vars

\* 1e-6
Tolerance == Frac(1, 1000000)

\* x lies strictly inside the XYZ range: every channel is positive
StrictlyInsideXYZ(xyz) == \A c \in 1..3 : Above(xyz[c], Whole(0))

\* two colours agree within the tolerance on every channel
Close(x, y) == \A c \in 1..3 : Below(Fabs(Sub(x[c], y[c])), Tolerance)

ConvertedBack == lab_again # nullopt

\* C23: a colour of the interior of its space whose image lies strictly
\* inside the other space's range comes back from the round trip within
\* 1e-6 on every channel (here: Lab to XYZ and back to Lab).
C23_RoundTripWithinTolerance ==
  (ConvertedBack /\ StrictlyInsideXYZ(xyz_value)) => Close(lab_again, lab_value)

\* What the code does on the dark greys: a and b come back exactly, and the
\* lightness comes back as l * 243891 / 243890 below the threshold of
\* Lab(XYZ) and exactly at lightness 8.
C23_DarkGreyDrift ==
  ConvertedBack =>
    /\ lab_again[2] = Whole(0)
    /\ lab_again[3] = Whole(0)
    /\ lab_again[1] = IF lab_value[1] = Whole(8)
                        THEN lab_value[1]
                        ELSE Times(lab_value[1], Frac(243891, 243890))

C23_DarkGreyConverted ==
  /\ ConvertedBack
  /\ lab_value[1] = Whole(5)
  /\ StrictlyInsideXYZ(xyz_value)
  /\ ~Close(lab_again, lab_value)

(***************************************************************************)
(* Properties of the sweeps of farthestPoints (Spec).                      *)
(***************************************************************************)
\* between the seed and the sort: the while loop and the for loop inside it
InSweeps == pc \in {"fp_while", "fp_for"}

\* the entries of r_c the loop of line 71 reads: the first n_colors - n
LivePool == [k \in 0..(n_colors - n - 1) |-> r_c[k]]

\* the slots of r, then the live pool
Arrangement == Concat(r, LivePool)

\* C24: throughout the sweeps the anchors keep their slots, the selected
\* slots and the live pool together hold every index below n_fixed + C
\* exactly once, the pool holds no anchor and no background index, and the
\* background index is not selected.
C24_AnchorsFrozenPoolDisjoint ==
  InSweeps =>
    /\ \A k \in 0..(n_fixed - 1) : r[k] = k
    /\ size(Arrangement) = n_colors
    /\ \A v \in 0..(n_colors - 1) :
         Cardinality({k \in DOMAIN Arrangement : Arrangement[k] = v}) = 1
    /\ \A k \in DOMAIN LivePool :
         LivePool[k] >= n_fixed /\ LivePool[k] # n_colors
    /\ \A k \in DOMAIN r : r[k] # n_colors

\* in a sweep, after a swap, with an anchor, a background and a pool
C24_SweepAfterSwap ==
  /\ pc = "fp_for"
  /\ n_fixed > 0
  /\ has_value(bg)
  /\ set_changed
  /\ r # InitialSelection(n)
  /\ n_colors - n > 0

\* the smallest distance between two selected slots and, with a background,
\* between a slot that is not an anchor and the background
SelectionObjective(sel) ==
  Min2(MinOver({dist_mat[<<sel[q[1]], sel[q[2]]>>] :
                  q \in {q \in (DOMAIN sel) \X (DOMAIN sel) : q[1] < q[2]}}),
       IF has_value(bg)
       THEN MinOver({dist_mat[<<sel[k], n_colors>>] :
                       k \in {k \in DOMAIN sel : k >= n_fixed}})
       ELSE DBL_MAX)

\* C25: no iteration of the for loop, whether it swaps or not, lowers the
\* smallest pairwise distance of the selection (the distances of the
\* non-anchor slots to the background counted when there is one).
C25_SwapsMonotone ==
  [][Slot => SelectionObjective(r') >= SelectionObjective(r)]_vars

\* in a sweep, after a swap, with a background and at least two slots, the
\* selection's smallest distance strictly above the seed's
C25_SwapRaisedObjective ==
  /\ pc = "fp_for"
  /\ set_changed
  /\ has_value(bg)
  /\ n >= 2
  /\ SelectionObjective(r) > SelectionObjective(InitialSelection(n))

\* d_old of slot i and d_k of pool position k, as the claim names them
D_old == MinDistTo(r, i, r[i])

D_k(k) == MinDistTo(r, i, LivePool[k])

\* the pool positions whose d_k is the largest of the pool
Maximisers ==
  {k \in DOMAIN LivePool : \A k2 \in DOMAIN LivePool : D_k(k2) <= D_k(k)}

\* the first of them in traversal order
FirstMaximiser == CHOOSE k \in Maximisers : \A k2 \in Maximisers : k <= k2

\* one iteration of the for loop swaps slot i with the first pool position
\* attaining the largest d_k if that exceeds d_old, and otherwise leaves r
\* and r_c alone
SwapsFirstMaximum ==
  IF \E k \in DOMAIN LivePool : D_k(k) > D_old
  THEN /\ r' = [r EXCEPT ![i] = r_c[FirstMaximiser]]
       /\ r_c' = [r_c EXCEPT ![FirstMaximiser] = r[i]]
  ELSE r' = r /\ r_c' = r_c

\* every two distinct points of the matrix, the background included, are
\* the same distance apart
AllDistancesEqual ==
  \A p, q \in (DOMAIN dist_mat) :
    (p[1] # p[2] /\ q[1] # q[2]) => dist_mat[p] = dist_mat[q]

\* C26: a slot is swapped only for a pool element strictly farther than the
\* slot's point, and then for the first one attaining the largest d_k; on
\* ties nothing moves; so with all distances equal the returned indices
\* are the first n.
C26_FirstMaximumOrUnchanged ==
  /\ [][Slot => SwapsFirstMaximum]_vars
  /\ []((Returned /\ AllDistancesEqual) =>
          {result[k] : k \in DOMAIN result} = 0..(n - 1))

\* The swap rule by itself, which every iteration follows.
C26_SwapRule == [][Slot => SwapsFirstMaximum]_vars

\* With all distances equal the selection stays the seed, and what is
\* returned are the n - n_fixed new slots counted from the first candidate.
C26_EqualDistancesKeepSeed ==
  ((pc \in {"fp_sort", "fp_return", "fp_done"}) /\ AllDistancesEqual) =>
     /\ {r[k] : k \in DOMAIN r} = 0..(n - 1)
     /\ Returned => {result[k] : k \in DOMAIN result} = 0..(n - n_fixed - 1)

\* a returned call with an anchor, one new slot and all distances equal
C26_EqualDistancesWithAnchor ==
  /\ Returned
  /\ AllDistancesEqual
  /\ n_fixed = 1
  /\ n = 2
  /\ n_candidates >= 1

\* the while loop has been left and std::sort has not yet run
LoopExited == pc = "fp_sort"

\* C27: when the sweep loop exits, no candidate left in the pool is farther
\* from the other selected points (and from the background) than the point
\* of any non-anchor slot is.
C27_LocalOptimumAtExit ==
  LoopExited =>
    \A s \in DOMAIN r : \A k \in DOMAIN LivePool :
      s >= n_fixed => MinDistTo(r, s, LivePool[k]) <= MinDistTo(r, s, r[s])

\* the loop left after a swap, with two new slots, a background and
\* candidates left in the pool
C27_ExitedAfterSwap ==
  /\ LoopExited
  /\ n - n_fixed >= 2
  /\ has_value(bg)
  /\ n_colors - n >= 1
  /\ r # InitialSelection(n)

\* the non-anchor slots of sel are in non-increasing order of the sort key
Descending(sel) ==
  \A p, q \in DOMAIN sel :
    (n_fixed <= p /\ p < q) => SortKey(sel, sel[p]) >= SortKey(sel, sel[q])

\* the slot that holds index v
SlotOf(sel, v) == CHOOSE k \in DOMAIN sel : sel[k] = v

\* non-anchor entries of equal key stand in after as they stood in before
KeepsTies(before, after) ==
  \A p, q \in DOMAIN after :
    (n_fixed <= p /\ p < q /\ SortKey(after, after[p]) = SortKey(after, after[q]))
       => SlotOf(before, after[p]) < SlotOf(before, after[q])

\* C28: the returned sequence is the anchors in their given order followed
\* by the non-anchor selections in non-increasing order of their smallest
\* distance to the other non-anchor selections, entries of equal value in
\* the order the search left them in.
C28_StableDescendingAfterAnchors ==
  /\ [][Sort => (Descending(r') /\ KeepsTies(r, r'))]_vars
  /\ [](Returned =>
          /\ size(result) = n
          /\ \A k \in DOMAIN result :
               result[k] = IF k < n_fixed THEN k ELSE r[k])

\* What std::sort guarantees and what the return copies: the anchors' slots
\* untouched, the other slots rearranged into non-increasing key order, and
\* the result the non-anchor slots counted from the first candidate.
C28_DescendingNewSlotsOnly ==
  /\ [][Sort => /\ Descending(r')
                /\ \A k \in 0..(n_fixed - 1) : r'[k] = r[k]
                /\ {r'[k] : k \in DOMAIN r} = {r[k] : k \in DOMAIN r}]_vars
  /\ [](Returned => result = [k \in 0..(n - n_fixed - 1) |-> r[n_fixed + k] - n_fixed])

\* sorted with two entries of equal key exchanged, no anchor involved
C28_TieReordered ==
  /\ pc = "fp_return"
  /\ n_fixed = 0
  /\ \E inp \in DOMAIN sort_memo : ~KeepsTies(inp[1], r)

(***************************************************************************)
(* SpecSetters: one setter call, with arguments it accepts and arguments   *)
(* it rejects, on each configured builder.                                 *)
(***************************************************************************)
\* std::string::npos
npos == -1

\* std::string::find of a one-character delimiter: the position, counted
\* from 0, of its first occurrence
find(str, delimiter) ==
  IF \E k \in 1..Len(str) : str[k] = delimiter
  THEN (CHOOSE k \in 1..Len(str) :
          str[k] = delimiter /\ \A k2 \in 1..(k - 1) : str[k2] # delimiter) - 1
  ELSE npos

\* the static table of preset palettes: package -> the names of its
\* palettes (a table of one package with two palettes)
COLOR_PALETTES == (<<"p">> :> {<<"a">>, <<"b">>})

\* validatePalette (palettes.cpp): what it throws, or nothing
validatePalette(palette_name) ==
  LET pos == find(palette_name, ":")
      pkg == substr(palette_name, 0, pos)
      pal == SubSeq(palette_name, pos + 2, Len(palette_name))
  IN  IF pos = npos
      THEN Throw("std::invalid_argument",
                 "Invalid palette format. Expected format: 'package:palette'")
      ELSE IF pkg \notin DOMAIN COLOR_PALETTES
      THEN Throw("std::invalid_argument", "Package not found")
      ELSE IF pal \notin COLOR_PALETTES[pkg]
      THEN Throw("std::invalid_argument", "Palette not found in package")
      ELSE NoError

\* setInputPalette
setInputPalette(palette_name) ==
  /\ pc = "qp_idle"
  /\ LET e == validatePalette(palette_name)
     IN  IF e # NoError
         THEN /\ error' = e
              /\ pc' = "qp_thrown"
              /\ UNCHANGED this
         ELSE /\ this' = [this EXCEPT !.palette = palette_name,
                                      !.mode = "PALETTE"]
              /\ UNCHANGED <<pc, error>>
  /\ UNCHANGED <<caller, fp_params, colors, dist_mat, r, r_c, i, set_changed,
                 result, rerun_vars, fixed_palette, rgb_colors,
                 rgb_colors_mod, palette, omp_vars, lib_vars>>

\* setColorspaceSize storing the size before it tests it
setColorspaceSize_store_first(n_points) ==
  /\ pc = "qp_idle"
  /\ this' = [this EXCEPT !.n_points = n_points]
  /\ IF n_points <= 0
     THEN /\ error' = Throw("std::invalid_argument",
                            "Number of points must be greater than 0")
          /\ pc' = "qp_thrown"
     ELSE UNCHANGED <<pc, error>>
  /\ UNCHANGED <<caller, fp_params, colors, dist_mat, r, r_c, i, set_changed,
                 result, rerun_vars, fixed_palette, rgb_colors,
                 rgb_colors_mod, palette, omp_vars, lib_vars>>

\* setColorspaceSize; n_points is a std::size_t
setColorspaceSize(n_points) ==
  /\ pc = "qp_idle"
  /\ IF n_points <= 0
     THEN /\ error' = Throw("std::invalid_argument",
                            "Number of points must be greater than 0")
          /\ pc' = "qp_thrown"
          /\ UNCHANGED this
     ELSE /\ this' = [this EXCEPT !.n_points = n_points]
          /\ UNCHANGED <<pc, error>>
  /\ UNCHANGED <<caller, fp_params, colors, dist_mat, r, r_c, i, set_changed,
                 result, rerun_vars, fixed_palette, rgb_colors,
                 rgb_colors_mod, palette, omp_vars, lib_vars>>

\* "#0aF"; "#0aF" then "#g00"; "0aF"
HexLists ==
  {Vec(<< <<"#", "0", "a", "F">> >>),
   Vec(<< <<"#", "0", "a", "F">>, <<"#", "g", "0", "0">> >>),
   Vec(<< <<"0", "a", "F">> >>)}

\* "p:a", "pa", "q:a", "p:c", ":a", "p:"
PaletteNames ==
  {<<"p", ":", "a">>, <<"p", "a">>, <<"q", ":", "a">>, <<"p", ":", "c">>,
   <<":", "a">>, <<"p", ":">>}

\* the values handed to setColorspaceSize
GridSizes == {0, 1, 2000}

AnySetter ==
  \/ \E cs \in Pools : setInputRGB(cs)
  \/ \E hs \in HexLists : setInputHex(hs)
  \/ \E name \in PaletteNames : setInputPalette(name)
  \/ \E h \in HueLims : \E sc \in SOrCLims : \E l \in LLims :
       \E space \in ColorspaceTypes : setInputColorspace(h, sc, l, space)
  \/ \E m \in CvdMaps : setCvd(m)
  \/ setBackground(White)
  \/ \E m \in MetricTypes : setMetric(m)
  \/ \E b \in Budgets \cup {0, -1} : setMemoryLimit(b)
  \/ \E np \in GridSizes : setColorspaceSize(np)

\* one call on a builder as configured
NextSetters == this \in ConfiguredBuilders /\ AnySetter

SpecSetters == InitCalls /\ [][NextSetters]_vars

SetterFailed == pc = "qp_thrown"

\* C29: a setter call that throws leaves every field of the builder as it
\* was before the call.
C29_FailedSetterLeavesBuilder ==
  [][SetterFailed' => this' = this]_vars

\* a configured builder on which each of the six setters that validate has
\* thrown is reached: here the one with a cvd map and a background on which
\* setColorspaceSize(0) threw
C29_SizeZeroRejected ==
  /\ SetterFailed
  /\ error.what = "Number of points must be greater than 0"
  /\ this.cvd # <<>>
  /\ has_value(this.bg)
  /\ this.mode = "RGB"

(***************************************************************************)
(* colorGrid<colors::HSL> (color_grid.h), called by selectColors in        *)
(* COLORSPACE mode with the builder's limits and n_points.  The Halton     *)
(* values and the scaled channels are exact fractions.                     *)
(***************************************************************************)
\* largest n_points for which the grid is computed
MaxPoints == 4

\* Halton::primes, the first three
primes == <<2, 3, 5>>

\* Halton::halton(index, base): the loop of lines 38-42 from the state
\* <<f, result, i>> (res for result)
RECURSIVE HaltonLoop(_, _, _, _)
HaltonLoop(f, res, idx, base) ==
  IF idx > 0
  THEN LET f2 == Over(f, Whole(base))
       IN  HaltonLoop(f2, Plus(res, Times(f2, Whole(idx % base))),
                      idx \div base, base)
  ELSE res

halton(index, base) == HaltonLoop(Whole(1), Whole(0), index, base)

\* Halton<3>::next() when counter is the given value
HaltonNext(counter) == [d \in 1..3 |-> halton(counter, primes[d])]

\* scaleToInterval, lines 54-59
scaleToInterval(x, min, max) ==
  clamp(Plus(Times(Sub(max, min), Sub(x, Whole(1))), max), min, max)

\* a limit of the builder as a pair of doubles
Lim(lim) == << Whole(lim[1]), Whole(lim[2]) >>

\* lines 95-99: the colour of iteration k
GridColor(hue_lim, sat_lim, light_lim, k) ==
  LET vals == HaltonNext(k)
      h == scaleToInterval(vals[1], hue_lim[1], hue_lim[2])
      s == scaleToInterval(vals[2], sat_lim[1], sat_lim[2])
      l == scaleToInterval(vals[3], light_lim[1], light_lim[2])
  IN  << IF Below(h, Whole(0)) THEN Plus(h, Whole(360)) ELSE h, s, l >>

\* the asserts of HSL::HSL(double, double, double), colors.cpp:330-332
HSLAssertsHold(c) ==
  /\ ~Below(c[1], Whole(0)) /\ Below(c[1], Whole(360))
  /\ ~Below(c[2], Whole(0)) /\ ~Above(c[2], Whole(1))
  /\ ~Below(c[3], Whole(0)) /\ ~Above(c[3], Whole(1))

\* colorGrid<colors::HSL>, lines 84-102
colorGridHSL(hue_lim, sat_lim, light_lim, n_points) ==
  [k \in 0..(n_points - 1) |-> GridColor(hue_lim, sat_lim, light_lim, k)]

\* qualpal.cpp:161-168 for HSL: the grid of the stored limits.  A colour
\* that fails an assert of its constructor ends the program unless the
\* build defines NDEBUG.
MakeGrid ==
  /\ pc = "qp_idle"
  /\ this.mode = "COLORSPACE"
  /\ this.colorspace_input = "HSL"
  /\ this.n_points <= MaxPoints
  /\ LET g == colorGridHSL(Lim(this.h_lim), Lim(this.s_or_c_lim),
                           Lim(this.l_lim), this.n_points)
     IN  \E ndebug \in BOOLEAN :
           IF ~ndebug /\ \E k \in DOMAIN g : ~HSLAssertsHold(g[k])
           THEN pc' = "grid_aborted" /\ UNCHANGED grid
           ELSE pc' = "grid_done" /\ grid' = g
  /\ UNCHANGED <<caller, fp_params, fp_locals, rerun_vars, sc_vars, omp_vars,
                 hex_vars, ap_vars, conv_vars>>

\* hue, saturation and lightness ranges with min <= max: whole, negative,
\* degenerate, ending at 360, and out of range
GridHueLims == {<<0, 360>>, <<-90, 90>>, <<-360, 0>>, <<120, 120>>,
                <<360, 360>>, <<-361, 0>>}

GridSatLims == {<<0, 1>>, <<0, 0>>, <<1, 1>>, <<0, 2>>}

GridLightLims == {<<0, 1>>, <<0, 0>>, <<1, 1>>, <<-1, 1>>}

NextGrid ==
  \/ \E h \in GridHueLims : \E sc \in GridSatLims : \E l \in GridLightLims :
       setInputColorspace(h, sc, l, "HSL")
  \/ \E np \in 0..MaxPoints : setColorspaceSize(np)
  \/ MakeGrid

SpecGrid == InitSelect /\ [][NextGrid]_vars

GridEnded == pc \in {"grid_done", "grid_aborted"}

\* lo <= x <= hi for a fraction x and whole lo, hi
Inside(x, lim) == ~Below(x, Whole(lim[1])) /\ ~Above(x, Whole(lim[2]))

\* C30: for every range triple setInputColorspace accepts for HSL and every
\* n_points the generator returns exactly n_points colours, each with
\* saturation and lightness inside the given ranges and hue in [0, 360).
C30_GridInsideRanges ==
  GridEnded =>
    /\ pc = "grid_done"
    /\ size(grid) = this.n_points
    /\ \A k \in DOMAIN grid :
         /\ ~Below(grid[k][1], Whole(0)) /\ Below(grid[k][1], Whole(360))
         /\ Inside(grid[k][2], this.s_or_c_lim)
         /\ Inside(grid[k][3], this.l_lim)

\* What the code does: n_points colours with saturation and lightness
\* inside the ranges and hue in [0, 360], the hue 360 (and, in a build with
\* asserts, the abort) exactly for the hue range {360, 360}.
C30_GridInsideClosedRanges ==
  /\ pc = "grid_aborted" => this.h_lim = <<360, 360>>
  /\ pc = "grid_done" =>
       /\ size(grid) = this.n_points
       /\ \A k \in DOMAIN grid :
            /\ ~Below(grid[k][1], Whole(0)) /\ ~Above(grid[k][1], Whole(360))
            /\ grid[k][1] = Whole(360) <=> this.h_lim = <<360, 360>>
            /\ Inside(grid[k][2], this.s_or_c_lim)
            /\ Inside(grid[k][3], this.l_lim)

\* a grid of four colours from a range of negative hues, wrapped
C30_NegativeHuesWrapped ==
  /\ pc = "grid_done"
  /\ this.h_lim = <<-90, 90>>
  /\ this.n_points = MaxPoints
  /\ grid[0][1] = Whole(270)
====
